---- MODULE Spec2Model ----
(***************************************************************************)
(* Daybreak: NTT migration analysis of an ERC-20 token.                    *)
(*                                                                         *)
(* The model follows the analysis pipeline of the commands (scan, report,  *)
(* compare, migrate): the resolved token metadata, capability flags and    *)
(* bytecode profile go through CompatibilityChecker::check, and then,      *)
(* with the bridge status and the optional holder data, through            *)
(* RiskScorer::calculate, which ends in RiskScore::from_components.        *)
(*                                                                         *)
(* Option<T> is modelled as a sequence of length at most one:              *)
(* None is <<>> and Some(x) is <<x>>.  Percentages (f64 in the source) are *)
(* fixed-point integers in tenths of a percent.                            *)
(***************************************************************************)
EXTENDS Integers, Sequences, FiniteSets, TLC

VARIABLES
    pc,              \* position in the pipeline
    overflow_checks, \* build profile: TRUE = debug (overflow panics), FALSE = release (wraps)
    token,           \* TokenInfo (the decimals field; the other fields are opaque text)
    capabilities,    \* TokenCapabilities
    bytecode,        \* BytecodeAnalysis
    bridge_status,   \* BridgeStatus
    holder_data,     \* Option<HolderData>
    components,      \* RiskComponents handed to RiskScore::from_components
    compatibility,   \* Option<CompatibilityResult>
    risk_score,      \* Option<RiskScore>
    input,           \* the text handed to a decoder or to the bytecode analyzer
    output,          \* Option<Result<..>>: what the decoder or the command returned
    effects,         \* the calls made to the outside (RPC requests, commands, files), in order
    locals           \* the local variables of the function that is running

vars == <<pc, overflow_checks, token, capabilities, bytecode, bridge_status,
          holder_data, components, compatibility, risk_score, input, output, effects,
          locals>>

---------------------------------------------------------------------------
(* Bounds of the model *)

\* Source precisions 0..MaxDecimals are enumerated in the rule-evaluator runs
MaxDecimals == 9

(* Program constants *)

\* The largest value of a u8
U8Max == 255
\* One percent in the fixed-point representation of an f64 percentage
PercentScale == 10

None == <<>>

\* No function with local variables of interest is running
NoLocals == <<>>
Some(x) == <<x>>
IsSome(o) == Len(o) = 1
Unwrap(o) == o[1]

Min(a, b) == IF a < b THEN a ELSE b

---------------------------------------------------------------------------
(* Types *)

IssueSeverity == {"Info", "Warning", "Error"}
NttMode == {"Locking", "Burning"}
ProxyType == {"Eip1967", "Eip1822", "TransparentUpgradeable", "MinimalProxy", "Unknown"}
BytecodeComplexity == {"Simple", "Moderate", "Complex"}
RiskRating == {"Low", "Medium", "High"}

TokenCapabilities ==
    [has_mint: BOOLEAN, has_burn: BOOLEAN, has_pause: BOOLEAN, has_blacklist: BOOLEAN,
     has_permit: BOOLEAN, is_upgradeable: BOOLEAN, is_rebasing: BOOLEAN]

DefaultCapabilities ==
    [has_mint |-> FALSE, has_burn |-> FALSE, has_pause |-> FALSE, has_blacklist |-> FALSE,
     has_permit |-> FALSE, is_upgradeable |-> FALSE, is_rebasing |-> FALSE]

DefaultBytecodeAnalysis ==
    [size_bytes |-> 0, is_proxy |-> FALSE, proxy_type |-> None,
     implementation_address |-> None, has_selfdestruct |-> FALSE,
     has_delegatecall |-> FALSE, has_fee_pattern |-> FALSE, complexity |-> "Simple"]

DefaultBridgeStatus ==
    [already_on_solana |-> FALSE, solana_address |-> None, bridge_provider |-> None,
     bridge_type |-> None, wormhole_attested |-> FALSE]

DefaultRiskComponents ==
    [decimal_handling |-> 0, token_features |-> 0, bytecode_complexity |-> 0,
     holder_concentration |-> 0, bridge_status |-> 0]

\* {:?} of an Option<ProxyType>
DebugProxyType(proxy_type) ==
    IF IsSome(proxy_type) THEN "Some(" \o Unwrap(proxy_type) \o ")" ELSE "None"

---------------------------------------------------------------------------
(* CompatibilityChecker *)

\* The ceiling of the destination precision
max_solana_decimals == 8

\* CompatibilityIssue { severity, code, title, description, recommendation }
Issue(severity, code, title, description, recommendation) ==
    [severity |-> severity, code |-> code, title |-> title,
     description |-> description, recommendation |-> recommendation]

check_decimals_ceiling_9(decimals, issues) ==
    IF decimals > 9
    THEN [issues |-> Append(issues,
              Issue("Warning", "DECIMAL_TRIM", "Decimal Trimming Required", "", "")),
          decimal_trimming_required |-> TRUE,
          solana_decimals |-> 9]
    ELSE [issues |-> issues,
          decimal_trimming_required |-> FALSE,
          solana_decimals |-> decimals]

check_decimals(decimals, issues) ==
    IF decimals > max_solana_decimals
    THEN [issues |-> Append(issues,
              Issue("Warning", "DECIMAL_TRIM", "Decimal Trimming Required",
                    "Token has " \o ToString(decimals) \o " decimals but NTT supports max "
                    \o ToString(max_solana_decimals) \o ". Amounts will be trimmed, "
                    \o "potentially causing precision loss.",
                    "Solana token will use " \o ToString(max_solana_decimals)
                    \o " decimals. Ensure your application handles the decimal "
                    \o "difference correctly.")),
          decimal_trimming_required |-> TRUE,
          solana_decimals |-> max_solana_decimals]
    ELSE [issues |-> issues,
          decimal_trimming_required |-> FALSE,
          solana_decimals |-> decimals]

RebasingIssue ==
    Issue("Error", "REBASING", "Rebasing Token Detected",
          "This token rebases (adjusts balances without transfers). When bridged via NTT "
          \o "in locking mode, locked tokens on the source chain will desync from minted "
          \o "tokens on Solana, causing loss of funds.",
          "Rebasing tokens are incompatible with NTT. Consider wrapping the token in a "
          \o "non-rebasing wrapper (e.g. wstETH for stETH) before bridging.")

check_rebasing_warning(caps, issues) ==
    IF caps.is_rebasing
    THEN Append(issues, [RebasingIssue EXCEPT !.severity = "Warning"])
    ELSE issues

check_rebasing(caps, issues) ==
    IF caps.is_rebasing THEN Append(issues, RebasingIssue) ELSE issues

FeeIssue ==
    Issue("Error", "FEE_ON_TRANSFER", "Fee-on-Transfer Detected",
          "Token appears to charge fees on transfers. This is incompatible with NTT "
          \o "bridging as the fee mechanism cannot be replicated across chains.",
          "Consider deploying a wrapper token without fees, or use a different "
          \o "bridging solution.")
PauseIssue ==
    Issue("Warning", "PAUSABLE", "Pausable Token",
          "Token can be paused by owner. If paused during a bridge transfer, funds "
          \o "could be locked.",
          "Ensure pause functionality won't interfere with bridge operations. "
          \o "Consider governance controls.")
BlacklistIssue ==
    Issue("Warning", "BLACKLIST", "Blacklist Functionality",
          "Token has blacklist capability. Blacklisted addresses cannot transfer "
          \o "tokens, which could affect bridge operations.",
          "Ensure NTT contracts are not blacklistable. Document blacklist policy for users.")
MintIssue ==
    Issue("Info", "MINTABLE", "Mintable Token",
          "Token has mint capability on the source chain.",
          "Mint capability alone does not enable burning mode. Burning mode requires "
          \o "burn capability so the NTT manager can burn tokens.")
BurnIssue ==
    Issue("Info", "BURNABLE", "Burnable Token",
          "Token supports burning, compatible with NTT burning mode.",
          "Burning mode is the preferred NTT configuration.")

PushIf(cond, issues, issue) == IF cond THEN Append(issues, issue) ELSE issues

check_features_pause_error(caps, bc, issues) ==
    LET i1 == PushIf(bc.has_fee_pattern, issues, FeeIssue)
        i2 == PushIf(caps.has_pause, i1, [PauseIssue EXCEPT !.severity = "Error"])
        i3 == PushIf(caps.has_blacklist, i2, BlacklistIssue)
        i4 == PushIf(caps.has_mint, i3, MintIssue)
    IN  PushIf(caps.has_burn, i4, BurnIssue)

check_features_burn_first(caps, bc, issues) ==
    LET i1 == PushIf(bc.has_fee_pattern, issues, FeeIssue)
        i2 == PushIf(caps.has_pause, i1, PauseIssue)
        i3 == PushIf(caps.has_blacklist, i2, BlacklistIssue)
        i4 == PushIf(caps.has_burn, i3, BurnIssue)
    IN  PushIf(caps.has_mint, i4, MintIssue)

check_features(caps, bc, issues) ==
    LET i1 == PushIf(bc.has_fee_pattern, issues, FeeIssue)
        i2 == PushIf(caps.has_pause, i1, PauseIssue)
        i3 == PushIf(caps.has_blacklist, i2, BlacklistIssue)
        i4 == PushIf(caps.has_mint, i3, MintIssue)
    IN  PushIf(caps.has_burn, i4, BurnIssue)

SelfdestructIssue ==
    Issue("Warning", "SELFDESTRUCT", "Self-destruct Capability",
          "Contract contains selfdestruct opcode. If triggered, bridged tokens could "
          \o "become worthless.",
          "Review contract for selfdestruct conditions. Ensure it cannot be called "
          \o "maliciously.")
ProxyIssue(bc) ==
    Issue("Info", "PROXY", "Upgradeable Proxy",
          "Contract is an upgradeable proxy (" \o DebugProxyType(bc.proxy_type)
          \o "). Implementation can change over time.",
          "Monitor for upgrades. NTT integration should be re-verified after any "
          \o "implementation changes.")

check_bytecode_typed_only(bc, issues) ==
    LET i1 == PushIf(bc.has_selfdestruct, issues, SelfdestructIssue)
    IN  PushIf(bc.is_proxy /\ IsSome(bc.proxy_type), i1, ProxyIssue(bc))

check_bytecode(bc, issues) ==
    LET i1 == PushIf(bc.has_selfdestruct, issues, SelfdestructIssue)
    IN  PushIf(bc.is_proxy, i1, ProxyIssue(bc))

determine_mode_mint_or_burn(caps) ==
    IF caps.has_burn \/ caps.has_mint THEN "Burning" ELSE "Locking"

determine_mode(caps) ==
    IF caps.has_burn THEN "Burning" ELSE "Locking"

HasError(issues) == \E i \in 1..Len(issues) : issues[i].severity = "Error"

check_first_issue_only(tok, caps, bc) ==
    LET d == check_decimals(tok.decimals, <<>>)
        i2 == check_rebasing(caps, d.issues)
        i3 == check_features(caps, bc, i2)
        issues == check_bytecode(bc, i3)
    IN  [is_compatible |-> ~(issues # <<>> /\ issues[1].severity = "Error"),
         recommended_mode |-> determine_mode(caps),
         issues |-> issues,
         decimal_trimming_required |-> d.decimal_trimming_required,
         solana_decimals |-> d.solana_decimals]

check(tok, caps, bc) ==
    LET d == check_decimals(tok.decimals, <<>>)
        i2 == check_rebasing(caps, d.issues)
        i3 == check_features(caps, bc, i2)
        issues == check_bytecode(bc, i3)
    IN  [is_compatible |-> ~HasError(issues),
         recommended_mode |-> determine_mode(caps),
         issues |-> issues,
         decimal_trimming_required |-> d.decimal_trimming_required,
         solana_decimals |-> d.solana_decimals]

---------------------------------------------------------------------------
(* RiskScorer *)

score_decimals_nine_free(decimals) ==
    IF decimals <= 9 THEN 0
    ELSE IF decimals <= 12 THEN 8
    ELSE IF decimals <= 15 THEN 14
    ELSE 20

score_decimals(decimals) ==
    IF decimals <= 8 THEN 0
    ELSE IF decimals = 9 THEN 3
    ELSE IF decimals <= 12 THEN 8
    ELSE IF decimals <= 15 THEN 14
    ELSE 20

score_features_swapped_weights(caps, bc) ==
    IF caps.is_rebasing THEN 25
    ELSE Min((IF bc.has_fee_pattern THEN 15 ELSE 0)
             + (IF caps.has_pause THEN 4 ELSE 0)
             + (IF caps.has_blacklist THEN 3 ELSE 0)
             + (IF bc.has_selfdestruct THEN 3 ELSE 0), 25)

\* score is a u8; the largest sum, 15 + 3 + 4 + 3, is 25: no addition overflows
score_features(caps, bc) ==
    IF caps.is_rebasing THEN 25
    ELSE Min((IF bc.has_fee_pattern THEN 15 ELSE 0)
             + (IF caps.has_pause THEN 3 ELSE 0)
             + (IF caps.has_blacklist THEN 4 ELSE 0)
             + (IF bc.has_selfdestruct THEN 3 ELSE 0), 25)

score_bytecode_by_delegatecall(bc) ==
    LET base == CASE bc.complexity = "Simple" -> 0
                  [] bc.complexity = "Moderate" -> 8
                  [] bc.complexity = "Complex" -> 15
    IN  Min(base + (IF bc.has_delegatecall THEN 5 ELSE 0), 20)

score_bytecode(bc) ==
    LET base == CASE bc.complexity = "Simple" -> 0
                  [] bc.complexity = "Moderate" -> 8
                  [] bc.complexity = "Complex" -> 15
    IN  Min(base + (IF bc.is_proxy THEN 5 ELSE 0), 20)

\* An f64 percentage compared with a literal: x.0 is x * PercentScale
Pct(whole) == whole * PercentScale

score_holders(holders) ==
    IF ~IsSome(holders) THEN 5
    ELSE LET data == Unwrap(holders)
             concentration == data.top_10_concentration
         IN  IF data.top_holders # <<>> /\ Head(data.top_holders).percentage > Pct(50)
             THEN 15
             ELSE IF concentration < Pct(50) THEN 0
             ELSE IF concentration < Pct(70) THEN 5
             ELSE IF concentration < Pct(85) THEN 10
             ELSE 15

score_bridge_attested_first(bs) ==
    IF bs.wormhole_attested THEN 5
    ELSE IF bs.already_on_solana THEN 15
    ELSE 0

score_bridge(bs) ==
    IF bs.already_on_solana THEN 15
    ELSE IF bs.wormhole_attested THEN 5
    ELSE 0

\* RiskRating by the total
rating_of(total) ==
    IF total <= 33 THEN "Low" ELSE IF total <= 66 THEN "Medium" ELSE "High"

\* The u8 additions of from_components, left to right: the partial sums
PartialSums(c) ==
    LET s1 == c.decimal_handling + c.token_features
        s2 == s1 + c.bytecode_complexity
        s3 == s2 + c.holder_concentration
        s4 == s3 + c.bridge_status
    IN  <<s1, s2, s3, s4>>

\* An addition of from_components leaves the range of a u8
Overflows(c) == \E i \in 1..4 : PartialSums(c)[i] > U8Max

\* The RiskScore a run that does not panic returns: each u8 addition wraps
\* in a build without overflow checks
from_components(c) ==
    LET total == Min(PartialSums(c)[4] % (U8Max + 1), 100)
    IN  [total |-> total, rating |-> rating_of(total), components |-> c]

calculate_components_swapped(tok, caps, bc, bs, holders) ==
    [decimal_handling |-> score_features(caps, bc),
     token_features |-> score_decimals(tok.decimals),
     bytecode_complexity |-> score_bytecode(bc),
     holder_concentration |-> score_holders(holders),
     bridge_status |-> score_bridge(bs)]

\* The RiskComponents calculate hands to from_components
calculate_components(tok, caps, bc, bs, holders) ==
    [decimal_handling |-> score_decimals(tok.decimals),
     token_features |-> score_features(caps, bc),
     bytecode_complexity |-> score_bytecode(bc),
     holder_concentration |-> score_holders(holders),
     bridge_status |-> score_bridge(bs)]

---------------------------------------------------------------------------
(* Actions *)

\* let compatibility = CompatibilityChecker::check(&token, &capabilities, &bytecode);
CheckCompatibility ==
    /\ pc = "start"
    /\ compatibility' = Some(check(token, capabilities, bytecode))
    /\ pc' = "checked"
    /\ UNCHANGED <<effects, input, locals, output, overflow_checks, token, capabilities, bytecode, bridge_status,
                   holder_data, components, risk_score>>

\* RiskScore::from_components(components): in a build with overflow checks an
\* addition that overflows panics, otherwise it wraps
FromComponentsStep(c) ==
    IF overflow_checks /\ Overflows(c)
    THEN /\ pc' = "panicked"
         /\ risk_score' = None
    ELSE /\ pc' = "scored"
         /\ risk_score' = Some(from_components(c))

\* let risk_score = RiskScorer::calculate(&token, &capabilities, &bytecode,
\*                                        &bridge_status, holder_data.as_ref());
CalculateRisk ==
    /\ pc = "checked"
    /\ components' = calculate_components(token, capabilities, bytecode,
                                          bridge_status, holder_data)
    /\ FromComponentsStep(components')
    /\ UNCHANGED <<effects, input, locals, output, overflow_checks, token, capabilities, bytecode, bridge_status,
                   holder_data, compatibility>>

\* RiskScore::from_components called with components of the caller's making
FromComponents ==
    /\ pc = "components"
    /\ FromComponentsStep(components)
    /\ UNCHANGED <<effects, input, locals, output, overflow_checks, token, capabilities, bytecode, bridge_status,
                   holder_data, components, compatibility>>

---------------------------------------------------------------------------
(* Inputs *)

Token(decimals) == [decimals |-> decimals]

\* Source precisions of the rule-evaluator runs: the low ones, a usual ERC-20
\* precision and the largest u8
DecimalInputs == (0..MaxDecimals) \cup {18, U8Max}

OptionProxyType == {None} \cup {Some(p) : p \in ProxyType}

\* Bytecode profiles over the fields check reads
CheckBytecodeInputs ==
    {[DefaultBytecodeAnalysis EXCEPT !.is_proxy = p, !.proxy_type = t,
                                     !.has_selfdestruct = s, !.has_fee_pattern = f] :
        p \in BOOLEAN, t \in OptionProxyType, s \in BOOLEAN, f \in BOOLEAN}

InitPipeline ==
    /\ input = <<>>
    /\ output = None
    /\ effects = <<>>
    /\ locals = NoLocals
    /\ pc = "start"
    /\ overflow_checks \in BOOLEAN
    /\ components = DefaultRiskComponents
    /\ compatibility = None
    /\ risk_score = None

\* Every combination of capability flags and check-relevant bytecode fields
InitCheck ==
    /\ InitPipeline
    /\ token \in {Token(d) : d \in DecimalInputs}
    /\ capabilities \in TokenCapabilities
    /\ bytecode \in CheckBytecodeInputs
    /\ bridge_status = DefaultBridgeStatus
    /\ holder_data = None

\* Every source precision of a u8
InitDecimals ==
    /\ InitPipeline
    /\ token \in {Token(d) : d \in 0..U8Max}
    /\ capabilities \in {c \in TokenCapabilities : ~c.has_permit /\ ~c.is_upgradeable}
    /\ bytecode \in {DefaultBytecodeAnalysis,
                     [DefaultBytecodeAnalysis EXCEPT !.has_fee_pattern = TRUE]}
    /\ bridge_status = DefaultBridgeStatus
    /\ holder_data = None

\* Source precisions of the risk runs: one or two of each band of score_decimals
RiskDecimalInputs == {8, 9, 12, 15, 18}

\* Bytecode profiles over the fields the risk scorer reads
RiskBytecodeInputs ==
    {[DefaultBytecodeAnalysis EXCEPT !.is_proxy = p, !.complexity = c,
                                     !.has_selfdestruct = s, !.has_fee_pattern = f] :
        p \in BOOLEAN, c \in BytecodeComplexity, s \in BOOLEAN, f \in BOOLEAN}

BridgeInputs ==
    {[DefaultBridgeStatus EXCEPT !.already_on_solana = a, !.wormhole_attested = w] :
        a \in BOOLEAN, w \in BOOLEAN}

HolderInfo(percentage) == [percentage |-> percentage]
HolderData(top_holders, top_10_concentration) ==
    [top_holders |-> top_holders, top_10_concentration |-> top_10_concentration,
     total_holders |-> None]

\* Holder data around the thresholds of score_holders (49.9, 69.9, 84.9, 85.0
\* as in test_holders_concentration_bands), absent included
HolderInputs ==
    {None} \cup
    {Some(HolderData(t, c)) :
        t \in {<<>>, <<HolderInfo(Pct(50))>>, <<HolderInfo(Pct(50) + 1)>>},
        c \in {Pct(50) - 1, Pct(70) - 1, Pct(85) - 1, Pct(85)}}

\* Every combination of the inputs the risk scorer reads
InitRisk ==
    /\ InitPipeline
    /\ token \in {Token(d) : d \in RiskDecimalInputs}
    /\ capabilities \in {c \in TokenCapabilities :
                            ~c.has_mint /\ ~c.has_burn /\ ~c.has_permit /\ ~c.is_upgradeable}
    /\ bytecode \in RiskBytecodeInputs
    /\ bridge_status \in BridgeInputs
    /\ holder_data \in HolderInputs

\* Every combination of capability flags and risk-relevant bytecode fields
InitFeatures ==
    /\ InitPipeline
    /\ token = Token(18)
    /\ capabilities \in TokenCapabilities
    /\ bytecode \in RiskBytecodeInputs
    /\ bridge_status = DefaultBridgeStatus
    /\ holder_data = None

\* Component values around the rating thresholds, the clamp and the u8 range
ComponentInputs == {0, 1, 33, 34, 67, 100, U8Max}

\* RiskComponents is a public struct: any five u8 values can be handed over
InitComponents ==
    /\ input = <<>>
    /\ output = None
    /\ effects = <<>>
    /\ locals = NoLocals
    /\ pc = "components"
    /\ overflow_checks \in BOOLEAN
    /\ token = Token(18)
    /\ capabilities = DefaultCapabilities
    /\ bytecode = DefaultBytecodeAnalysis
    /\ bridge_status = DefaultBridgeStatus
    /\ holder_data = None
    /\ components \in [decimal_handling: ComponentInputs, token_features: ComponentInputs,
                       bytecode_complexity: ComponentInputs,
                       holder_concentration: ComponentInputs,
                       bridge_status: ComponentInputs]
    /\ compatibility = None
    /\ risk_score = None

Next == CheckCompatibility \/ CalculateRisk

SpecCheck == InitCheck /\ [][Next]_vars

SpecDecimals == InitDecimals /\ [][Next]_vars

SpecRisk == InitRisk /\ [][Next]_vars

SpecFeatures == InitFeatures /\ [][Next]_vars

SpecComponents == InitComponents /\ [][FromComponents]_vars

---------------------------------------------------------------------------
(* Properties of CompatibilityChecker::check *)

Checked == IsSome(compatibility)
Result == Unwrap(compatibility)
Codes(issues) == [i \in 1..Len(issues) |-> issues[i].code]
HasIssue(issues, severity, code) ==
    \E i \in 1..Len(issues) : issues[i].severity = severity /\ issues[i].code = code
HasCode(issues, code) == \E i \in 1..Len(issues) : issues[i].code = code

\* C1: the verdict returned by check is compatible exactly when no issue of
\* the returned list has severity Error.
C1_CompatibleIffNoError ==
    Checked =>
        (Result.is_compatible
            <=> \A i \in 1..Len(Result.issues) : Result.issues[i].severity # "Error")

\* An incompatible verdict whose Error issue is not the first of the list
C1_Witness ==
    /\ Checked
    /\ ~Result.is_compatible
    /\ Len(Result.issues) >= 2
    /\ Result.issues[1].severity = "Warning"

\* C2: with the rebasing flag set, whatever the other inputs are, the verdict
\* is not compatible, an Error issue with code REBASING is in the list, and
\* the token-feature risk component is exactly 25.
C2_RebasingVeto ==
    capabilities.is_rebasing =>
        /\ Checked => /\ ~Result.is_compatible
                      /\ HasIssue(Result.issues, "Error", "REBASING")
        /\ IsSome(risk_score) => Unwrap(risk_score).components.token_features = 25

\* A scored rebasing token with no other Error source and a low precision
C2_Witness ==
    /\ capabilities.is_rebasing
    /\ ~bytecode.has_fee_pattern
    /\ token.decimals <= 8
    /\ Checked
    /\ ~Result.is_compatible
    /\ IsSome(risk_score)
    /\ Unwrap(risk_score).components.token_features = 25

\* C3: the verdict is not compatible if and only if the rebasing flag or the
\* fee-pattern flag is set (warnings and infos never block), and the
\* fee-pattern flag always yields an Error issue with code FEE_ON_TRANSFER.
C3_OnlyErrorsBlock ==
    Checked =>
        /\ ~Result.is_compatible <=> (capabilities.is_rebasing \/ bytecode.has_fee_pattern)
        /\ bytecode.has_fee_pattern => HasIssue(Result.issues, "Error", "FEE_ON_TRANSFER")

\* Every warning and info rule fires and the token is still compatible
C3_Witness ==
    /\ Checked
    /\ Result.is_compatible
    /\ token.decimals > 8
    /\ capabilities.has_pause /\ capabilities.has_blacklist
    /\ capabilities.has_mint /\ capabilities.has_burn
    /\ bytecode.has_selfdestruct /\ bytecode.is_proxy
    /\ Len(Result.issues) = 7

\* C4: for every source precision d of a u8 the destination precision is
\* min(d, 8), trimming is required exactly when d > 8, and a Warning issue
\* with code DECIMAL_TRIM is in the list exactly when d > 8.
C4_DecimalRule ==
    Checked =>
        LET d == token.decimals
        IN  /\ Result.solana_decimals = (IF d < 8 THEN d ELSE 8)
            /\ Result.solana_decimals <= 8
            /\ Result.decimal_trimming_required <=> d > 8
            /\ HasIssue(Result.issues, "Warning", "DECIMAL_TRIM") <=> d > 8
            /\ HasCode(Result.issues, "DECIMAL_TRIM") <=> d > 8

\* The largest u8 precision is trimmed to 8
C4_Witness ==
    /\ Checked
    /\ token.decimals = 255
    /\ Result.solana_decimals = 8
    /\ Result.decimal_trimming_required

\* C5: the recommended mode is Burning if and only if the burn flag is set,
\* and Locking otherwise, whatever the mint flag and the other inputs are.
C5_ModeByBurnAlone ==
    Checked =>
        Result.recommended_mode = (IF capabilities.has_burn THEN "Burning" ELSE "Locking")

\* A mintable token without burn, not compatible, is recommended Locking
C5_Witness ==
    /\ Checked
    /\ capabilities.has_mint /\ ~capabilities.has_burn
    /\ ~Result.is_compatible
    /\ Result.recommended_mode = "Locking"

RuleOrder ==
    <<"DECIMAL_TRIM", "REBASING", "FEE_ON_TRANSFER", "PAUSABLE", "BLACKLIST",
      "MINTABLE", "BURNABLE", "SELFDESTRUCT", "PROXY">>
RuleSeverity ==
    <<"Warning", "Error", "Error", "Warning", "Warning", "Info", "Info", "Warning", "Info">>
RuleApplies ==
    <<token.decimals > 8, capabilities.is_rebasing, bytecode.has_fee_pattern,
      capabilities.has_pause, capabilities.has_blacklist, capabilities.has_mint,
      capabilities.has_burn, bytecode.has_selfdestruct, bytecode.is_proxy>>
RuleIndex(code) == CHOOSE k \in 1..Len(RuleOrder) : RuleOrder[k] = code

\* C6: the issue codes returned by check are the sub-sequence of the fixed
\* rule order selected by the rule conditions, each with its rule's severity:
\* every applicable rule fires once, in order, whatever fired before it.
C6_FixedRuleOrder ==
    Checked =>
        LET issues == Result.issues
        IN  /\ \A i \in 1..Len(issues) :
                  /\ \E k \in 1..Len(RuleOrder) : RuleOrder[k] = issues[i].code
                  /\ RuleApplies[RuleIndex(issues[i].code)]
                  /\ issues[i].severity = RuleSeverity[RuleIndex(issues[i].code)]
            /\ \A i, j \in 1..Len(issues) :
                  i < j => RuleIndex(issues[i].code) < RuleIndex(issues[j].code)
            /\ \A k \in 1..Len(RuleOrder) :
                  RuleApplies[k] => HasCode(issues, RuleOrder[k])

\* All nine rules fire, the two Error rules included
C6_Witness ==
    /\ Checked
    /\ Codes(Result.issues) = RuleOrder

\* The text of the PROXY issue for each value of the profile's proxy_type
ProxyText(proxy_type) ==
    "Contract is an upgradeable proxy ("
    \o (CASE proxy_type = None -> "None"
          [] proxy_type = Some("Eip1967") -> "Some(Eip1967)"
          [] proxy_type = Some("Eip1822") -> "Some(Eip1822)"
          [] proxy_type = Some("TransparentUpgradeable") -> "Some(TransparentUpgradeable)"
          [] proxy_type = Some("MinimalProxy") -> "Some(MinimalProxy)"
          [] proxy_type = Some("Unknown") -> "Some(Unknown)")
    \o "). Implementation can change over time."

\* C7 as stated: a PROXY issue is emitted exactly when the capability
\* vector's upgradeable flag is set.
C7_ProxyByUpgradeableFlag ==
    Checked => (capabilities.is_upgradeable <=> HasIssue(Result.issues, "Info", "PROXY"))

\* C7 as amended: an Info issue with code PROXY, whose description embeds the
\* bytecode profile's proxy_type, is emitted exactly when the bytecode
\* profile's is_proxy flag is set; the capability vector's upgradeable flag
\* has no part in it.
C7_ProxyByBytecodeFlag ==
    Checked =>
        /\ bytecode.is_proxy <=> HasCode(Result.issues, "PROXY")
        /\ \A i \in 1..Len(Result.issues) :
              Result.issues[i].code = "PROXY" =>
                  /\ Result.issues[i].severity = "Info"
                  /\ Result.issues[i].description = ProxyText(bytecode.proxy_type)

\* A proxy profile with a kind and a capability vector that is not upgradeable
C7_Witness ==
    /\ Checked
    /\ bytecode.is_proxy
    /\ bytecode.proxy_type = Some("MinimalProxy")
    /\ ~capabilities.is_upgradeable
    /\ HasIssue(Result.issues, "Info", "PROXY")

---------------------------------------------------------------------------
(* Properties of RiskScorer::calculate and RiskScore::from_components *)

Scored == IsSome(risk_score)
Score == Unwrap(risk_score)
ExactSum(c) ==
    c.decimal_handling + c.token_features + c.bytecode_complexity
    + c.holder_concentration + c.bridge_status

\* C8: for every input of calculate the components stay within 20, 25, 20,
\* 15 and 20, no addition overflows, and the total is the sum of the five
\* components clamped to 100; decimals 18 with no flag and no holder data
\* gives components (20, 0, 0, 5, 0), total 25, rating Low.
C8_ComponentsAndTotalBounded ==
    /\ pc # "panicked"
    /\ Scored =>
        LET c == Score.components
        IN  /\ c.decimal_handling \in 0..20
            /\ c.token_features \in 0..25
            /\ c.bytecode_complexity \in 0..20
            /\ c.holder_concentration \in 0..15
            /\ c.bridge_status \in 0..20
            /\ Score.total = (IF ExactSum(c) > 100 THEN 100 ELSE ExactSum(c))
            /\ Score.total \in 0..100
            /\ (/\ token.decimals = 18
                /\ capabilities = DefaultCapabilities
                /\ bytecode = DefaultBytecodeAnalysis
                /\ bridge_status = DefaultBridgeStatus
                /\ holder_data = None)
               => /\ c = [decimal_handling |-> 20, token_features |-> 0,
                          bytecode_complexity |-> 0, holder_concentration |-> 5,
                          bridge_status |-> 0]
                  /\ Score.total = 25
                  /\ Score.rating = "Low"

\* Every component at its largest: 20 + 25 + 20 + 15 + 15
C8_Witness ==
    /\ Scored
    /\ capabilities.is_rebasing /\ capabilities.has_pause /\ capabilities.has_blacklist
    /\ bytecode.has_fee_pattern /\ bytecode.has_selfdestruct /\ bytecode.is_proxy
    /\ bytecode.complexity = "Complex"
    /\ bridge_status.already_on_solana /\ bridge_status.wormhole_attested
    /\ IsSome(holder_data)
    /\ Score.total = 95
    /\ Score.rating = "High"

\* C9: for any five u8 component values from_components returns, without
\* an addition wrapping or overflowing, total = min(100, exact sum) and the
\* rating Low up to 33, Medium up to 66, High from 67.
C9_ExactClampedSum ==
    /\ pc # "panicked"
    /\ Scored =>
        /\ Score.total = (IF ExactSum(components) > 100 THEN 100 ELSE ExactSum(components))
        /\ Score.rating = (CASE Score.total <= 33 -> "Low"
                             [] Score.total \in 34..66 -> "Medium"
                             [] Score.total >= 67 -> "High")

\* C10: the token-feature component is 25 when rebasing is set, and otherwise
\* min(25, 15 fee-pattern + 3 pausable + 4 blacklist + 3 selfdestruct); the
\* mint, burn, permit and upgradeable flags have no part in it.
C10_FeatureComponent ==
    Scored =>
        LET weight(flag, w) == IF flag THEN w ELSE 0
            sum == weight(bytecode.has_fee_pattern, 15) + weight(capabilities.has_pause, 3)
                   + weight(capabilities.has_blacklist, 4)
                   + weight(bytecode.has_selfdestruct, 3)
        IN  Score.components.token_features =
                (IF capabilities.is_rebasing THEN 25 ELSE IF sum > 25 THEN 25 ELSE sum)

\* Blacklist alone among the weighted flags, with every unweighted flag set
C10_Witness ==
    /\ Scored
    /\ ~capabilities.is_rebasing
    /\ capabilities.has_blacklist /\ ~capabilities.has_pause
    /\ ~bytecode.has_fee_pattern /\ ~bytecode.has_selfdestruct
    /\ capabilities.has_mint /\ capabilities.has_burn
    /\ capabilities.has_permit /\ capabilities.is_upgradeable
    /\ Score.components.token_features = 4

---------------------------------------------------------------------------
(* Inputs of the single component scorers *)

\* Longest holder list enumerated
MaxHolders == 2

SumPercentages(holders) ==
    LET RECURSIVE sum(_)
        sum(i) == IF i = 0 THEN 0 ELSE holders[i].percentage + sum(i - 1)
    IN  sum(Len(holders))

HolderLists ==
    UNION {[1..n -> {HolderInfo(p) : p \in {Pct(10), Pct(50), Pct(50) + 1, Pct(60)}}] :
              n \in 0..MaxHolders}

\* Holder data in any list order; the aggregate covers the listed holders and
\* is at most 100%
OrderedHolderInputs ==
    {None} \cup
    {Some(HolderData(t, c)) :
        t \in {l \in HolderLists : SumPercentages(l) <= Pct(100)},
        c \in {Pct(0), Pct(50) - 1, Pct(50), Pct(70) - 1, Pct(70), Pct(85) - 1, Pct(85),
               Pct(100)}}

InitHolders ==
    /\ InitPipeline
    /\ token = Token(18)
    /\ capabilities = DefaultCapabilities
    /\ bytecode = DefaultBytecodeAnalysis
    /\ bridge_status = DefaultBridgeStatus
    /\ holder_data \in {h \in OrderedHolderInputs :
                           IsSome(h) => SumPercentages(Unwrap(h).top_holders)
                                            <= Unwrap(h).top_10_concentration}

SpecHolders == InitHolders /\ [][Next]_vars

\* Bytecode profiles over every field but the implementation address
AllBytecodeInputs ==
    [size_bytes: {0, 45, 6000, 20000}, is_proxy: BOOLEAN, proxy_type: OptionProxyType,
     implementation_address: {None}, has_selfdestruct: BOOLEAN,
     has_delegatecall: BOOLEAN, has_fee_pattern: BOOLEAN, complexity: BytecodeComplexity]

InitBytecodeScore ==
    /\ InitPipeline
    /\ token = Token(18)
    /\ capabilities = DefaultCapabilities
    /\ bytecode \in AllBytecodeInputs
    /\ bridge_status = DefaultBridgeStatus
    /\ holder_data = None

SpecBytecodeScore == InitBytecodeScore /\ [][Next]_vars

BridgeType == {"Portal", "Ntt", "Native"}

\* Bridge statuses over every field
AllBridgeInputs ==
    [already_on_solana: BOOLEAN,
     solana_address: {None, Some("EPjFWdd5AufqSSqeM2qN1xzybapC8G4wEGGkZwyTDt1v")},
     bridge_provider: {None, Some("Native (USDC)")},
     bridge_type: {None} \cup {Some(t) : t \in BridgeType},
     wormhole_attested: BOOLEAN]

InitBridge ==
    /\ InitPipeline
    /\ token = Token(18)
    /\ capabilities = DefaultCapabilities
    /\ bytecode = DefaultBytecodeAnalysis
    /\ bridge_status \in AllBridgeInputs
    /\ holder_data = None

SpecBridge == InitBridge /\ [][Next]_vars

---------------------------------------------------------------------------
(* Properties of the single component scorers *)

\* C11: for every source precision d of a u8 the decimal component is 0 up
\* to 8, 3 at 9, 8 from 10 to 12, 14 from 13 to 15 and 20 from 16; it does not
\* decrease with d and is non-zero exactly when the verdict reports that
\* decimal trimming is required.
C11_DecimalBands ==
    Scored =>
        LET d == token.decimals
            dh == Score.components.decimal_handling
        IN  /\ d <= 8 => dh = 0
            /\ d = 9 => dh = 3
            /\ d \in 10..12 => dh = 8
            /\ d \in 13..15 => dh = 14
            /\ d >= 16 => dh = 20
            /\ \A e \in 0..d : score_decimals(e) <= dh
            /\ dh # 0 <=> Result.decimal_trimming_required

\* Scenario C: precision 9 scores 3, is trimmed, and lands on 8
C11_Witness ==
    /\ Scored
    /\ token.decimals = 9
    /\ Score.components.decimal_handling = 3
    /\ Result.decimal_trimming_required
    /\ Result.solana_decimals = 8

AnyHolderAbove(holders, pct) == \E i \in 1..Len(holders) : holders[i].percentage > pct

\* C12: the holder component is 5 without holder data; with holder data it
\* is 15 when the largest listed holder holds more than 50%, and otherwise 0,
\* 5, 10 or 15 by the top-10 concentration bands 50, 70 and 85.
C12_HolderComponent ==
    Scored =>
        Score.components.holder_concentration =
            (IF ~IsSome(holder_data) THEN 5
             ELSE LET data == Unwrap(holder_data)
                      c == data.top_10_concentration
                  IN  IF AnyHolderAbove(data.top_holders, Pct(50)) THEN 15
                      ELSE IF c < Pct(50) THEN 0
                      ELSE IF c < Pct(70) THEN 5
                      ELSE IF c < Pct(85) THEN 10
                      ELSE 15)

\* C13: the bytecode component is min(20, base + 5 if proxy) with base 0, 8
\* or 15 for Simple, Moderate or Complex, whatever the other fields of the
\* profile are.
C13_BytecodeComponent ==
    Scored =>
        LET base == CASE bytecode.complexity = "Simple" -> 0
                      [] bytecode.complexity = "Moderate" -> 8
                      [] bytecode.complexity = "Complex" -> 15
            sum == IF bytecode.is_proxy THEN base + 5 ELSE base
        IN  Score.components.bytecode_complexity = (IF sum > 20 THEN 20 ELSE sum)

\* A small profile classed Moderate, no proxy, every other flag set
C13_Witness ==
    /\ Scored
    /\ bytecode.complexity = "Moderate"
    /\ ~bytecode.is_proxy
    /\ bytecode.proxy_type = Some("Unknown")
    /\ bytecode.has_delegatecall /\ bytecode.has_selfdestruct /\ bytecode.has_fee_pattern
    /\ bytecode.size_bytes = 45
    /\ Score.components.bytecode_complexity = 8

\* C14: the bridge component is 15 when the token is already on Solana
\* (attested or not), 5 when it is attested only, 0 when neither, whatever
\* the address, provider and bridge kind are.
C14_BridgeComponent ==
    Scored =>
        Score.components.bridge_status =
            (IF bridge_status.already_on_solana THEN 15
             ELSE IF bridge_status.wormhole_attested THEN 5
             ELSE 0)

\* Present on Solana and attested as well, with address, provider and kind
C14_Witness ==
    /\ Scored
    /\ bridge_status.already_on_solana /\ bridge_status.wormhole_attested
    /\ IsSome(bridge_status.solana_address)
    /\ IsSome(bridge_status.bridge_provider)
    /\ bridge_status.bridge_type = Some("Portal")
    /\ Score.components.bridge_status = 15

\* ---------------------------------------------------------------------
\* AbiDecoder (analyzers/evm/decoder.rs)
\*
\* A &str is the sequence of its characters, each a one-character string;
\* every text handled here is ASCII, so its length in bytes is its length in
\* characters. An unsigned machine integer (u8, u64, u128, usize) is the
\* sequence of its hexadecimal digits, most significant first and without
\* leading zero (zero is the empty sequence): 256-bit values do not fit the
\* integers of the model checker. A String holding decoded bytes is the
\* sequence of its UTF-8 bytes.
\* ---------------------------------------------------------------------

\* anyhow::Result
Ok(v) == [ok |-> TRUE, value |-> v]
Err(context) == [ok |-> FALSE, error |-> context]

\* Outcome of a call that panicked instead of returning
Panic == [ok |-> FALSE, error |-> "panicked"]

HexChars == <<"0", "1", "2", "3", "4", "5", "6", "7", "8", "9",
              "a", "b", "c", "d", "e", "f">>
UpperHexChars == <<"A", "B", "C", "D", "E", "F">>

\* Two parts of one loop: the second part, evaluated once the first part
\* has its value
InOrder(first, second) == IF first = first THEN second ELSE second

\* Iterator::collect into a String or a Vec: the items as one sequence
collect(items) == SubSeq(items, 1, Len(items))

\* char::to_digit(16)
to_digit(ch) ==
    IF \E i \in 1..16 : HexChars[i] = ch
    THEN Some((CHOOSE i \in 1..16 : HexChars[i] = ch) - 1)
    ELSE IF \E i \in 1..6 : UpperHexChars[i] = ch
         THEN Some((CHOOSE i \in 1..6 : UpperHexChars[i] = ch) + 9)
         ELSE None

\* str::starts_with
starts_with(s, pat) ==
    /\ Len(s) >= Len(pat)
    /\ \A i \in 1..Len(pat) : s[i] = pat[i]

\* str::trim_start_matches: the pattern is removed as often as it leads
trim_start_matches(s, pat) ==
    LET n == Len(pat)
        Matches(j) == s[j] = pat[((j - 1) % n) + 1]
        \* the first character that does not continue a run of patterns
        stop == CHOOSE j \in 1..(Len(s) + 1) :
                    /\ j = Len(s) + 1 \/ ~Matches(j)
                    /\ \A i \in 1..(j - 1) : Matches(i)
        count == (stop - 1) \div n
    IN  SubSeq(s, count * n + 1, Len(s))

\* The digits of a machine integer: no leading zero
StripZeroDigits(digits) ==
    LET zeros == CHOOSE k \in 0..Len(digits) :
                     /\ k = Len(digits) \/ digits[k + 1] # 0
                     /\ \A j \in 1..k : digits[j] = 0
    IN  SubSeq(digits, zeros + 1, Len(digits))

\* <unsigned>::from_str_radix(src, 16) for a type of the given width: one
\* leading "+" is accepted, an empty digit string, a character that is not
\* a hexadecimal digit, or a value that does not fit the type is an error
from_str_radix(src, bits) ==
    LET digits == IF src # <<>> /\ Head(src) = "+" THEN Tail(src) ELSE src
    IN  IF digits = <<>> \/ \E i \in 1..Len(digits) : ~IsSome(to_digit(digits[i]))
        THEN Err("ParseIntError")
        ELSE LET value == StripZeroDigits([i \in 1..Len(digits) |->
                                              Unwrap(to_digit(digits[i]))])
             IN  IF Len(value) * 4 > bits THEN Err("ParseIntError") ELSE Ok(value)

\* One long division of a machine integer by ten, over the digits lo..hi;
\* st holds the quotient digits so far and the running remainder
RECURSIVE DivMod10Range(_, _, _, _)
DivMod10Range(st, digits, lo, hi) ==
    IF lo > hi THEN st
    ELSE IF lo = hi
    THEN LET cur == st.r * 16 + digits[lo]
         IN  [q |-> Append(st.q, cur \div 10), r |-> cur % 10]
    ELSE LET mid == (lo + hi) \div 2
             left == DivMod10Range(st, digits, lo, mid)
         IN  InOrder(left, DivMod10Range(left, digits, mid + 1, hi))

DivMod10(digits) ==
    LET st == DivMod10Range([q |-> <<>>, r |-> 0], digits, 1, Len(digits))
    IN  [q |-> StripZeroDigits(st.q), r |-> st.r]

\* <unsigned>::to_string: the decimal digits, no sign, no leading zero
RECURSIVE to_string(_)
to_string(value) ==
    IF value = <<>> THEN <<"0">>
    ELSE LET dm == DivMod10(value)
         IN  IF dm.q = <<>> THEN <<HexChars[dm.r + 1]>>
             ELSE Append(to_string(dm.q), HexChars[dm.r + 1])

\* A machine integer small enough for the integers of the model
RECURSIVE as_int(_)
as_int(value) ==
    IF value = <<>> THEN 0
    ELSE as_int(SubSeq(value, 1, Len(value) - 1)) * 16 + value[Len(value)]

\* An `if` in place of the `while`: one carry digit is pushed at most
PushCarry_single_digit(result, carry) ==
    IF carry > 0 THEN Append(result, carry % 10) ELSE result

\* `while carry > 0 { result.push(carry % 10); carry /= 10; }`
RECURSIVE PushCarry(_, _)
PushCarry(result, carry) ==
    IF carry > 0 THEN PushCarry(Append(result, carry % 10), carry \div 10) ELSE result

\* `for d in result.iter_mut()` of the multiplication by 16, over the digits
\* lo..hi; st holds the digits (least significant first) and the carry
RECURSIVE Mul16Range(_, _, _)
Mul16Range(st, lo, hi) ==
    IF lo > hi THEN st
    ELSE IF lo = hi
    THEN LET val == st.digits[lo] * 16 + st.carry
         IN  [digits |-> [st.digits EXCEPT ![lo] = val % 10], carry |-> val \div 10]
    ELSE LET mid == (lo + hi) \div 2
             left == Mul16Range(st, lo, mid)
         IN  InOrder(left, Mul16Range(left, mid + 1, hi))

\* `for d in result.iter_mut()` of the addition of the digit, over the digits
\* lo..hi; after `if carry == 0 { break; }` nothing changes any more
RECURSIVE AddRange(_, _, _)
AddRange(st, lo, hi) ==
    IF lo > hi \/ st.carry = 0 THEN st
    ELSE IF lo = hi
    THEN LET val == st.digits[lo] + st.carry
         IN  [digits |-> [st.digits EXCEPT ![lo] = val % 10], carry |-> val \div 10]
    ELSE LET mid == (lo + hi) \div 2
             left == AddRange(st, lo, mid)
         IN  InOrder(left, AddRange(left, mid + 1, hi))

\* The body of `for ch in hex.chars()`: result = result * 16 + digit, a
\* character that is no digit counting as 0
HexToDecimalStep(result, ch) ==
    LET d == to_digit(ch)
        digit == IF IsSome(d) THEN Unwrap(d) ELSE 0
        mul == Mul16Range([digits |-> result, carry |-> 0], 1, Len(result))
        multiplied == PushCarry(mul.digits, mul.carry)
        add == AddRange([digits |-> multiplied, carry |-> digit], 1, Len(multiplied))
    IN  PushCarry(add.digits, add.carry)

\* The loop `for ch in hex.chars()` over the characters lo..hi
RECURSIVE HexToDecimalRange(_, _, _, _)
HexToDecimalRange(result, hex, lo, hi) ==
    IF lo > hi THEN result
    ELSE IF lo = hi THEN HexToDecimalStep(result, hex[lo])
    ELSE LET mid == (lo + hi) \div 2
             left == HexToDecimalRange(result, hex, lo, mid)
         IN  InOrder(left, HexToDecimalRange(left, hex, mid + 1, hi))

\* hex_to_decimal without the final `.rev()`: least significant digit first
hex_to_decimal_unreversed(hex) ==
    LET result == HexToDecimalRange(<<0>>, hex, 1, Len(hex))
    IN  collect([i \in 1..Len(result) |-> HexChars[result[i] + 1]])

\* AbiDecoder::hex_to_decimal
hex_to_decimal(hex) ==
    LET result == HexToDecimalRange(<<0>>, hex, 1, Len(hex))
    IN  collect([i \in 1..Len(result) |-> HexChars[result[Len(result) + 1 - i] + 1]])

\* AbiDecoder::decode_uint256
decode_uint256(hex_arg) ==
    LET hex == trim_start_matches(hex_arg, <<"0", "x">>)
    IN  IF hex = <<>> \/ \A i \in 1..Len(hex) : hex[i] = "0"
        THEN Ok(<<"0">>)
        ELSE LET trimmed == trim_start_matches(hex, <<"0">>)
             IN  IF trimmed = <<>> THEN Ok(<<"0">>)
                 ELSE IF Len(trimmed) <= 16
                 THEN LET value == from_str_radix(trimmed, 64)
                      IN  IF value.ok THEN Ok(to_string(value.value))
                          ELSE Err("Failed to parse uint256")
                 ELSE IF Len(trimmed) <= 32
                 THEN LET value == from_str_radix(trimmed, 128)
                      IN  IF value.ok THEN Ok(to_string(value.value))
                          ELSE Err("Failed to parse uint256 as u128")
                 ELSE Ok(hex_to_decimal(trimmed))

\* The same decoder keeping the low eight bits of a wider parse
decode_uint8_truncating(hex_arg) ==
    LET hex == trim_start_matches(hex_arg, <<"0", "x">>)
        trimmed == trim_start_matches(hex, <<"0">>)
        value == from_str_radix(trimmed, 64)
        low == IF Len(value.value) > 2
               THEN SubSeq(value.value, Len(value.value) - 1, Len(value.value))
               ELSE value.value
    IN  IF hex = <<>> \/ trimmed = <<>> THEN Ok(0)
        ELSE IF value.ok THEN Ok(as_int(low))
        ELSE Err("Failed to parse uint8")

\* AbiDecoder::decode_uint8
decode_uint8(hex_arg) ==
    LET hex == trim_start_matches(hex_arg, <<"0", "x">>)
    IN  IF hex = <<>> THEN Ok(0)
        ELSE LET trimmed == trim_start_matches(hex, <<"0">>)
             IN  IF trimmed = <<>> THEN Ok(0)
                 ELSE LET value == from_str_radix(trimmed, 8)
                      IN  IF value.ok THEN Ok(as_int(value.value))
                          ELSE Err("Failed to parse uint8")

\* Characters that order before "0" (str::max compares bytes)
BelowZeroChars == {" ", "!", "#", "$", "%", "&", "(", ")", "*", "+", ",", "-", ".", "/"}

\* `trimmed.max("0")` for a text without leading "0"
max_with_zero(trimmed) ==
    IF trimmed = <<>> \/ Head(trimmed) \in BelowZeroChars THEN <<"0">> ELSE trimmed

\* The bytes of the pairs `&hex[i..i + 2]`, i = 0, 2, ..: a trailing single
\* character and a pair that is no byte are dropped (filter_map)
HexPairsToBytes(hex) ==
    LET parsed == [k \in 1..(Len(hex) \div 2) |->
                      from_str_radix(SubSeq(hex, 2 * k - 1, 2 * k), 8)]
        bytes == SelectSeq(parsed, LAMBDA byte : byte.ok)
    IN  [k \in 1..Len(bytes) |-> as_int(bytes[k].value)]

IsContinuation(b) == b \in 128..191

\* The validity check of String::from_utf8 (well-formed UTF-8 only: no
\* overlong form, no surrogate, nothing above U+10FFFF)
RECURSIVE is_utf8(_)
is_utf8(bytes) ==
    IF bytes = <<>> THEN TRUE
    ELSE LET b == bytes[1]
             n == Len(bytes)
         IN  IF b < 128 THEN is_utf8(Tail(bytes))
             ELSE IF b \in 194..223
             THEN /\ n >= 2 /\ IsContinuation(bytes[2])
                  /\ is_utf8(SubSeq(bytes, 3, n))
             ELSE IF b \in 224..239
             THEN /\ n >= 3
                  /\ bytes[2] \in (IF b = 224 THEN 160..191
                                    ELSE IF b = 237 THEN 128..159 ELSE 128..191)
                  /\ IsContinuation(bytes[3])
                  /\ is_utf8(SubSeq(bytes, 4, n))
             ELSE IF b \in 240..244
             THEN /\ n >= 4
                  /\ bytes[2] \in (IF b = 240 THEN 144..191
                                    ELSE IF b = 244 THEN 128..143 ELSE 128..191)
                  /\ IsContinuation(bytes[3]) /\ IsContinuation(bytes[4])
                  /\ is_utf8(SubSeq(bytes, 5, n))
             ELSE FALSE

\* str::trim on printable ASCII: the blanks at both ends are removed
RECURSIVE trim(_)
trim(bytes) ==
    IF bytes = <<>> THEN bytes
    ELSE IF Head(bytes) = 32 THEN trim(Tail(bytes))
    ELSE IF bytes[Len(bytes)] = 32 THEN trim(SubSeq(bytes, 1, Len(bytes) - 1))
    ELSE bytes

\* AbiDecoder::extract_ascii
extract_ascii(hex) ==
    LET all == HexPairsToBytes(hex)
        bytes == SelectSeq(all, LAMBDA b : b >= 32 /\ b < 127)
    IN  Ok(trim(bytes))

UsizeDigits == 16

\* A usize as its sixteen hexadecimal digits
PadUsize(value) == [i \in 1..UsizeDigits |->
                      IF i <= UsizeDigits - Len(value) THEN 0
                      ELSE value[i - (UsizeDigits - Len(value))]]

\* `length * 2` on usize: the wrapped product and whether it overflowed
usize_mul2(value) ==
    LET w == PadUsize(value)
    IN  [overflow |-> w[1] >= 8,
         value |-> StripZeroDigits([i \in 1..UsizeDigits |->
                       ((2 * w[i]) % 16) + (IF i < UsizeDigits THEN w[i + 1] \div 8 ELSE 0)])]

\* `data_start + ..` on usize with data_start = 128 = 0x80: the wrapped sum
\* and whether it overflowed
usize_add128(value) ==
    LET w == PadUsize(value)
        low == UsizeDigits - 1
        Carried(i) == w[low] >= 8 /\ \A j \in (i + 1)..(low - 1) : w[j] = 15
    IN  [overflow |-> Carried(0),
         value |-> StripZeroDigits([i \in 1..UsizeDigits |->
                       IF i = UsizeDigits THEN w[i]
                       ELSE IF i = low THEN (w[i] + 8) % 16
                       ELSE IF Carried(i) THEN (w[i] + 1) % 16
                       ELSE w[i]])]

\* `.min(hex.len())` for a text no longer than MaxTextLen characters
MaxTextDigits == 6
min_with_len(value, len) ==
    IF Len(value) > MaxTextDigits \/ as_int(value) > len THEN len ELSE as_int(value)

\* AbiDecoder::decode_string with data_start + length * 2 taken as given
decode_string_length_unscaled(hex_arg) ==
    LET hex == trim_start_matches(hex_arg, <<"0", "x">>)
    IN  IF Len(hex) < 128 THEN extract_ascii(hex)
        ELSE
        LET length_hex == SubSeq(hex, 65, 128)
            parsed == from_str_radix(max_with_zero(trim_start_matches(length_hex, <<"0">>)), 64)
            length == IF parsed.ok THEN parsed.value ELSE <<>>
            sum == usize_add128(length)
            data_end == min_with_len(sum.value, Len(hex))
            bytes == HexPairsToBytes(SubSeq(hex, 129, data_end))
        IN  IF length = <<>> THEN Ok(<<>>)
            ELSE IF sum.overflow /\ overflow_checks THEN Panic
            ELSE IF data_end < 128 THEN Panic
            ELSE IF is_utf8(bytes) THEN Ok(bytes)
            ELSE Err("Failed to decode string as UTF-8")

\* AbiDecoder::decode_string; usize is 64 bits wide. An overflow of
\* `data_start + length * 2` panics with overflow checks and wraps without,
\* and a slice that ends before its start panics
decode_string(hex_arg) ==
    LET hex == trim_start_matches(hex_arg, <<"0", "x">>)
    IN  IF Len(hex) < 128 THEN extract_ascii(hex)
        ELSE
        LET length_hex == SubSeq(hex, 65, 128)
            parsed == from_str_radix(max_with_zero(trim_start_matches(length_hex, <<"0">>)), 64)
            length == IF parsed.ok THEN parsed.value ELSE <<>>
            product == usize_mul2(length)
            sum == usize_add128(product.value)
            data_end == min_with_len(sum.value, Len(hex))
            bytes == HexPairsToBytes(SubSeq(hex, 129, data_end))
        IN  IF length = <<>> THEN Ok(<<>>)
            ELSE IF (product.overflow \/ sum.overflow) /\ overflow_checks THEN Panic
            ELSE IF data_end < 128 THEN Panic
            ELSE IF is_utf8(bytes) THEN Ok(bytes)
            ELSE Err("Failed to decode string as UTF-8")

\* ---------------------------------------------------------------------
\* Calls of the decoder
\* ---------------------------------------------------------------------

DecodeUint256 ==
    /\ pc = "decode_uint256"
    /\ output' = Some(decode_uint256(input))
    /\ pc' = "decoded"
    /\ UNCHANGED <<effects, input, locals, overflow_checks, token, capabilities, bytecode, bridge_status,
                   holder_data, components, compatibility, risk_score>>

DecodeUint8 ==
    /\ pc = "decode_uint8"
    /\ output' = Some(decode_uint8(input))
    /\ pc' = "decoded"
    /\ UNCHANGED <<effects, input, locals, overflow_checks, token, capabilities, bytecode, bridge_status,
                   holder_data, components, compatibility, risk_score>>

DecodeString ==
    /\ pc = "decode_string"
    /\ LET result == decode_string(input)
       IN  IF result = Panic
           THEN /\ pc' = "panicked"
                /\ output' = None
           ELSE /\ pc' = "decoded"
                /\ output' = Some(result)
    /\ UNCHANGED <<effects, input, locals, overflow_checks, token, capabilities, bytecode, bridge_status,
                   holder_data, components, compatibility, risk_score>>

\* ---------------------------------------------------------------------
\* Inputs of the decoder
\* ---------------------------------------------------------------------

\* Hexadecimal digits of a 32-byte ABI word
WordLength == 64

Repeat(ch, n) == [i \in 1..n |-> ch]

Prefixes == {<<>>, <<"0", "x">>}

\* The big-endian word of a digit string: zero-padded on the left
Word(digits) == Repeat("0", WordLength - Len(digits)) \o digits

\* n >= 1 characters: a first one, a run of one filler, a last one
Body(n, first, fill, last) ==
    IF n = 1 THEN <<first>> ELSE <<first>> \o Repeat(fill, n - 2) \o <<last>>

\* Numbers of significant digits on both sides of the u64 / u128 / manual
\* dispatch, up to the full word
SignificantLengths == {1, 2, 15, 16, 17, 31, 32, 33, 41, WordLength}

\* What is common to every call of a decoder: the scan pipeline is idle
InitDecoder ==
    /\ output = None
    /\ effects = <<>>
    /\ locals = NoLocals
    /\ token = Token(18)
    /\ capabilities = DefaultCapabilities
    /\ bytecode = DefaultBytecodeAnalysis
    /\ bridge_status = DefaultBridgeStatus
    /\ holder_data = None
    /\ components = DefaultRiskComponents
    /\ compatibility = None
    /\ risk_score = None

\* eth_call results holding a uint256: the word of a value, the zero word
\* and the empty result, with and without the 0x prefix
Uint256Inputs ==
    {p \o Word(Body(n, first, fill, last)) :
        p \in Prefixes, n \in SignificantLengths,
        first \in {"1", "8", "f"}, fill \in {"0", "9", "f"}, last \in {"0", "7", "f"}}
    \cup {p \o Repeat("0", WordLength) : p \in Prefixes}
    \cup Prefixes

InitUint256 ==
    /\ InitDecoder
    /\ pc = "decode_uint256"
    /\ overflow_checks = FALSE
    /\ input \in Uint256Inputs

SpecUint256 == InitUint256 /\ [][DecodeUint256]_vars

\* Characters that are no hexadecimal digit
BadChars == {"g", "x", "+"}

\* n characters "1" with the one at position k replaced
WithBadChar(n, k, bad) == [i \in 1..n |-> IF i = k THEN bad ELSE "1"]

MalformedLengths == {1, 2, 16, 17, 32, 33, WordLength}

\* The text behind the optional 0x prefix
AfterPrefix(text) ==
    IF starts_with(text, <<"0", "x">>) THEN SubSeq(text, 3, Len(text)) ELSE text

IsMalformed(text) ==
    \E i \in 1..Len(AfterPrefix(text)) : ~IsSome(to_digit(AfterPrefix(text)[i]))

\* Results with one character that is no hexadecimal digit, first, in the
\* middle or last, bare or behind leading zeros
MalformedInputs ==
    {m \in UNION {{p \o z \o WithBadChar(n, k, bad) :
                      p \in Prefixes, z \in {<<>>, <<"0">>, <<"0", "0">>},
                      k \in {1, (n + 1) \div 2, n}, bad \in BadChars} :
                  n \in MalformedLengths} :
        IsMalformed(m)}

InitMalformed ==
    /\ InitDecoder
    /\ pc = "decode_uint256"
    /\ overflow_checks = FALSE
    /\ input \in MalformedInputs

SpecMalformed == InitMalformed /\ [][DecodeUint256]_vars

MaxSignificant == 3

\* The digits the uint8 results are made of
Uint8Digits == {"0", "1", "2", "9", "a", "f"}

RECURSIVE DigitStrings(_)
DigitStrings(n) ==
    IF n = 0 THEN {<<>>}
    ELSE {Append(s, d) : s \in DigitStrings(n - 1), d \in Uint8Digits}

\* eth_call results holding a uint8: every string of up to MaxSignificant
\* of these digits, bare and as a 32-byte word, with and without the 0x prefix
Uint8Inputs ==
    LET digits == UNION {DigitStrings(n) : n \in 0..MaxSignificant}
    IN  {p \o d : p \in Prefixes, d \in digits}
        \cup {p \o Word(d) : p \in Prefixes, d \in digits}

InitUint8 ==
    /\ InitDecoder
    /\ pc = "decode_uint8"
    /\ overflow_checks = FALSE
    /\ input \in Uint8Inputs

SpecUint8 == InitUint8 /\ [][DecodeUint8]_vars

MaxPayload == 2

\* NUL, blank, "U", the two bytes of U+00E9 and a byte no UTF-8 text holds
PayloadBytes == {0, 32, 85, 195, 169, 255}

RECURSIVE ByteStrings(_)
ByteStrings(n) ==
    IF n = 0 THEN {<<>>}
    ELSE {Append(s, b) : s \in ByteStrings(n - 1), b \in PayloadBytes}

HexOfByte(b) == <<HexChars[(b \div 16) + 1], HexChars[(b % 16) + 1]>>

RECURSIVE HexOfBytes(_)
HexOfBytes(bytes) ==
    IF bytes = <<>> THEN <<>> ELSE HexOfByte(Head(bytes)) \o HexOfBytes(Tail(bytes))

\* The payload, bare or zero-padded on the right to whole words
Padded(hex, whole) ==
    IF whole THEN hex \o Repeat("0", (WordLength - (Len(hex) % WordLength)) % WordLength)
    ELSE hex

\* ABI strings: an offset word (the usual 0x20 or anything else), the length
\* word of a length up to the number of payload bytes, and the payload
StandardStringInputs ==
    UNION {{p \o first \o Word(<<HexChars[length + 1]>>) \o Padded(HexOfBytes(bytes), whole) :
               p \in Prefixes,
               first \in {Word(<<"2", "0">>), Repeat("f", WordLength)},
               length \in 0..Len(bytes),
               whole \in BOOLEAN} :
           bytes \in UNION {ByteStrings(n) : n \in 0..MaxPayload}}

\* Results that are no ABI string: shorter than two words, a length word
\* that is no number or that overflows usize arithmetic, a length beyond
\* the payload, a payload with a character that is no digit
OtherStringInputs ==
    {HexOfBytes(<<77, 75, 82>>) \o Repeat("0", WordLength - 8),
     <<"0", "x">>,
     HexOfBytes(<<32, 85, 7, 32>>) \o <<"5">>}
    \cup {Word(<<"2", "0">>) \o Word(w) \o HexOfBytes(<<85, 85>>) :
            w \in {<<"+", "2">>, <<"g">>, <<"9">>,
                   <<"8">> \o Repeat("0", 15), Repeat("f", 16),
                   <<"7">> \o Repeat("f", 15), <<"1">> \o Repeat("0", 16),
                   <<"8">> \o Repeat("0", 14) \o <<"1">>,
                   Repeat("f", 14) \o <<"c", "0">>}}
    \cup {Word(<<"2", "0">>) \o Word(<<"2">>) \o <<"5", "5", "z", "z", "5">>}

InitString ==
    /\ InitDecoder
    /\ pc = "decode_string"
    /\ overflow_checks \in BOOLEAN
    /\ input \in StandardStringInputs \cup OtherStringInputs

SpecString == InitString /\ [][DecodeString]_vars

\* ---------------------------------------------------------------------
\* Properties of the decoder
\* ---------------------------------------------------------------------

Decoded == pc = "decoded"
Returned == Unwrap(output)

\* The value of a decimal or hexadecimal digit string as a machine integer,
\* by Horner's rule on hexadecimal digits kept least significant first
RECURSIVE MulAddRange(_, _, _, _)
MulAddRange(st, factor, lo, hi) ==
    IF lo > hi THEN st
    ELSE IF lo = hi
    THEN LET val == st.digits[lo] * factor + st.carry
         IN  [digits |-> [st.digits EXCEPT ![lo] = val % 16], carry |-> val \div 16]
    ELSE LET mid == (lo + hi) \div 2
             left == MulAddRange(st, factor, lo, mid)
         IN  InOrder(left, MulAddRange(left, factor, mid + 1, hi))

MulAdd(lsf, factor, add) ==
    LET st == MulAddRange([digits |-> lsf, carry |-> add], factor, 1, Len(lsf))
    IN  IF st.carry = 0 THEN st.digits ELSE Append(st.digits, st.carry)

RECURSIVE NumberOfRange(_, _, _, _, _)
NumberOfRange(lsf, text, radix, lo, hi) ==
    IF lo > hi THEN lsf
    ELSE IF lo = hi THEN MulAdd(lsf, radix, Unwrap(to_digit(text[lo])))
    ELSE LET mid == (lo + hi) \div 2
             left == NumberOfRange(lsf, text, radix, lo, mid)
         IN  InOrder(left, NumberOfRange(left, text, radix, mid + 1, hi))

NumberOf(text, radix) ==
    LET lsf == NumberOfRange(<<>>, text, radix, 1, Len(text))
    IN  [k \in 1..Len(lsf) |-> lsf[Len(lsf) + 1 - k]]

IsDecimal(text) ==
    /\ text # <<>>
    /\ \A i \in 1..Len(text) : IsSome(to_digit(text[i])) /\ Unwrap(to_digit(text[i])) <= 9
    /\ Len(text) > 1 => text[1] # "0"

\* 2^64 - 1, 2^128, 2^160 and 2^256 - 1 in decimal
U64MAX ==
    <<"1", "8", "4", "4", "6", "7", "4", "4", "0", "7", "3", "7", "0", "9",
    "5", "5", "1", "6", "1", "5">>
TWO128 ==
    <<"3", "4", "0", "2", "8", "2", "3", "6", "6", "9", "2", "0", "9", "3",
    "8", "4", "6", "3", "4", "6", "3", "3", "7", "4", "6", "0", "7", "4", "3",
    "1", "7", "6", "8", "2", "1", "1", "4", "5", "6">>
TWO160 ==
    <<"1", "4", "6", "1", "5", "0", "1", "6", "3", "7", "3", "3", "0", "9",
    "0", "2", "9", "1", "8", "2", "0", "3", "6", "8", "4", "8", "3", "2", "7",
    "1", "6", "2", "8", "3", "0", "1", "9", "6", "5", "5", "9", "3", "2", "5",
    "4", "2", "9", "7", "6">>
U256MAX ==
    <<"1", "1", "5", "7", "9", "2", "0", "8", "9", "2", "3", "7", "3", "1",
    "6", "1", "9", "5", "4", "2", "3", "5", "7", "0", "9", "8", "5", "0", "0",
    "8", "6", "8", "7", "9", "0", "7", "8", "5", "3", "2", "6", "9", "9", "8",
    "4", "6", "6", "5", "6", "4", "0", "5", "6", "4", "0", "3", "9", "4", "5",
    "7", "5", "8", "4", "0", "0", "7", "9", "1", "3", "1", "2", "9", "6", "3",
    "9", "9", "3", "5">>

\* C15: decoding the 64-digit word of N, with or without 0x, returns the
\* decimal digits of N without leading zero, whichever of the u64, u128 and
\* manual paths handles it; the zero word and the empty text give "0".
C15_Uint256Exact ==
    Decoded =>
        /\ Returned.ok
        /\ IsDecimal(Returned.value)
        /\ NumberOf(Returned.value, 10) = NumberOf(AfterPrefix(input), 16)
        /\ AfterPrefix(input) = <<>> => Returned.value = <<"0">>
        /\ AfterPrefix(input) = Repeat("0", WordLength) => Returned.value = <<"0">>
        /\ AfterPrefix(input) = Word(Repeat("f", 16)) =>
               Returned.value = U64MAX
        /\ AfterPrefix(input) = Word(<<"1">> \o Repeat("0", 32)) =>
               Returned.value = TWO128
        /\ AfterPrefix(input) = Word(<<"1">> \o Repeat("0", 40)) =>
               Returned.value = TWO160
        /\ AfterPrefix(input) = Repeat("f", WordLength) =>
               Returned.value = U256MAX

\* 2^160 handed over as a prefixed word comes back as its 49 decimal digits
C15_Witness ==
    /\ Decoded
    /\ input = <<"0", "x">> \o Word(<<"1">> \o Repeat("0", 40))
    /\ Returned = Ok(TWO160)

\* C16: a text with a character that is no hexadecimal digit behind the
\* optional 0x prefix makes decode_uint256 return an error, whatever the
\* number of significant digits.
C16_MalformedIsError ==
    (Decoded /\ IsMalformed(input)) => ~Returned.ok

RECURSIVE SmallValue(_)
SmallValue(text) ==
    IF text = <<>> THEN 0
    ELSE SmallValue(SubSeq(text, 1, Len(text) - 1)) * 16 + Unwrap(to_digit(text[Len(text)]))

\* C18: decode_uint8 returns the value of the digits behind the optional 0x
\* prefix when it is at most 255 (0 for an empty or all-zero text), and an
\* error when it is larger.
C18_Uint8Value ==
    Decoded =>
        LET v == SmallValue(trim_start_matches(AfterPrefix(input), <<"0">>))
        IN  IF v <= U8Max THEN Returned = Ok(v) ELSE ~Returned.ok

\* The prefixed 32-byte word of 255 decodes to 255
C18_Witness ==
    /\ Decoded
    /\ input = <<"0", "x">> \o Word(<<"f", "f">>)
    /\ Returned = Ok(U8Max)

\* The length word of a text of two words or more, when it is a number
LengthOf(text) == SmallValue(trim_start_matches(SubSeq(text, WordLength + 1, 2 * WordLength),
                                                <<"0">>))

IsHex(text) == \A i \in 1..Len(text) : IsSome(to_digit(text[i]))

\* Two words, the second one a length, and that many payload bytes at least
IsStandardLayout(text) ==
    /\ Len(text) >= 2 * WordLength
    /\ IsHex(text)
    /\ Len(trim_start_matches(SubSeq(text, WordLength + 1, 2 * WordLength), <<"0">>))
           <= MaxTextDigits
    /\ Len(text) >= 2 * WordLength + 2 * LengthOf(text)

RECURSIVE BytesOf(_)
BytesOf(hex) ==
    IF hex = <<>> THEN <<>>
    ELSE <<SmallValue(SubSeq(hex, 1, 2))>> \o BytesOf(SubSeq(hex, 3, Len(hex)))

\* The first L payload bytes
PayloadOf(text) ==
    BytesOf(SubSeq(text, 2 * WordLength + 1, 2 * WordLength + 2 * LengthOf(text)))

\* C17: on the standard layout decode_string returns the first L payload
\* bytes as text, without the padding, and the empty string when L = 0;
\* bytes that are no UTF-8 text are an error and no call panics.
C17_StandardString ==
    (pc # "decode_string" /\ IsStandardLayout(AfterPrefix(input))) =>
        /\ Decoded
        /\ LengthOf(AfterPrefix(input)) = 0 => Returned = Ok(<<>>)
        /\ IF is_utf8(PayloadOf(AfterPrefix(input)))
           THEN Returned = Ok(PayloadOf(AfterPrefix(input)))
           ELSE ~Returned.ok

\* "U" is read from a payload of whole words that goes on after it
C17_Witness ==
    /\ Decoded
    /\ input = <<"0", "x">> \o Word(<<"2", "0">>) \o Word(<<"1">>)
                   \o Padded(HexOfBytes(<<85, 255>>), TRUE)
    /\ Returned = Ok(<<85>>)

\* ---------------------------------------------------------------------
\* BytecodeAnalyzer (analyzers/evm/bytecode.rs)
\* ---------------------------------------------------------------------

\* opcodes::DELEGATECALL, opcodes::SELFDESTRUCT
DELEGATECALL == 244
SELFDESTRUCT == U8Max

\* EIP-1167 minimal proxy prefix
MINIMAL_PROXY_PREFIX ==
    <<"3", "6", "3", "d", "3", "d", "3", "7", "3", "d",
      "3", "d", "3", "d", "3", "6", "3", "d", "7", "3">>

UpperLetters == <<"A", "B", "C", "D", "E", "F", "G", "H", "I", "J", "K", "L", "M",
                  "N", "O", "P", "Q", "R", "S", "T", "U", "V", "W", "X", "Y", "Z">>
LowerLetters == <<"a", "b", "c", "d", "e", "f", "g", "h", "i", "j", "k", "l", "m",
                  "n", "o", "p", "q", "r", "s", "t", "u", "v", "w", "x", "y", "z">>
UpperSet == {UpperLetters[k] : k \in 1..26}

\* str::to_lowercase on ASCII text
to_lowercase(s) ==
    collect([i \in 1..Len(s) |->
                IF s[i] \in UpperSet
                THEN LowerLetters[CHOOSE k \in 1..26 : UpperLetters[k] = s[i]]
                ELSE s[i]])

\* str::contains: the pattern occurs at some character position
contains(s, pat) ==
    \E i \in 1..(Len(s) - Len(pat) + 1) : \A j \in 1..Len(pat) : s[i + j - 1] = pat[j]

\* BytecodeAnalyzer::has_opcode; format!("{:02x}", opcode) is HexOfByte
has_opcode(code, opcode) == contains(to_lowercase(code), HexOfByte(opcode))

KB == 1024

\* BytecodeAnalyzer::calculate_complexity
calculate_complexity(size_bytes) ==
    IF size_bytes < 5 * KB THEN "Simple"
    ELSE IF size_bytes < 15 * KB THEN "Moderate"
    ELSE "Complex"

SmallProxySize == 1000
UpgradeableProxySize == 5000

\* detect_proxy testing delegatecall and size before the template
detect_proxy_size_first(code) ==
    LET bytecode_lower == to_lowercase(code)
        size == Len(code) \div 2
        has_delegatecall == has_opcode(bytecode_lower, DELEGATECALL)
    IN  IF has_delegatecall /\ size < SmallProxySize THEN <<TRUE, Some("Eip1967")>>
        ELSE IF has_delegatecall /\ size < UpgradeableProxySize
        THEN <<TRUE, Some("TransparentUpgradeable")>>
        ELSE IF starts_with(bytecode_lower, MINIMAL_PROXY_PREFIX)
        THEN <<TRUE, Some("MinimalProxy")>>
        ELSE <<FALSE, None>>

\* BytecodeAnalyzer::detect_proxy
detect_proxy(code) ==
    LET bytecode_lower == to_lowercase(code)
        size == Len(code) \div 2
        has_delegatecall == has_opcode(bytecode_lower, DELEGATECALL)
    IN  IF starts_with(bytecode_lower, MINIMAL_PROXY_PREFIX)
        THEN <<TRUE, Some("MinimalProxy")>>
        ELSE IF has_delegatecall /\ size < SmallProxySize THEN <<TRUE, Some("Eip1967")>>
        ELSE IF has_delegatecall /\ size < UpgradeableProxySize
        THEN <<TRUE, Some("TransparentUpgradeable")>>
        ELSE <<FALSE, None>>

\* setFee, setTaxFee, setTaxRate, setFees
fee_selectors == <<<<"6", "9", "f", "e", "0", "e", "2", "d">>,
                   <<"c", "0", "b", "0", "f", "d", "a", "2">>,
                   <<"e", "0", "1", "a", "f", "9", "2", "c">>,
                   <<"f", "4", "1", "e", "6", "0", "c", "5">>>>

\* BytecodeAnalyzer::detect_fee_pattern
detect_fee_pattern(code) ==
    LET bytecode_lower == to_lowercase(code)
    IN  \E k \in 1..Len(fee_selectors) : contains(bytecode_lower, fee_selectors[k])

\* analyze looking for a proxy only in codes with the delegatecall opcode
analyze_proxy_by_delegatecall(code_arg) ==
    LET code == trim_start_matches(code_arg, <<"0", "x">>)
        size_bytes == Len(code) \div 2
        proxy == IF has_opcode(code, DELEGATECALL) THEN detect_proxy(code)
                 ELSE <<FALSE, None>>
    IN  IF size_bytes = 0 THEN DefaultBytecodeAnalysis
        ELSE [size_bytes |-> size_bytes,
              is_proxy |-> proxy[1],
              proxy_type |-> proxy[2],
              implementation_address |-> None,
              has_selfdestruct |-> has_opcode(code, SELFDESTRUCT),
              has_delegatecall |-> has_opcode(code, DELEGATECALL),
              has_fee_pattern |-> detect_fee_pattern(code),
              complexity |-> calculate_complexity(size_bytes)]

\* BytecodeAnalyzer::analyze
analyze(code_arg) ==
    LET code == trim_start_matches(code_arg, <<"0", "x">>)
        size_bytes == Len(code) \div 2
        proxy == detect_proxy(code)
    IN  IF size_bytes = 0 THEN DefaultBytecodeAnalysis
        ELSE [size_bytes |-> size_bytes,
              is_proxy |-> proxy[1],
              proxy_type |-> proxy[2],
              implementation_address |-> None,
              has_selfdestruct |-> has_opcode(code, SELFDESTRUCT),
              has_delegatecall |-> has_opcode(code, DELEGATECALL),
              has_fee_pattern |-> detect_fee_pattern(code),
              complexity |-> calculate_complexity(size_bytes)]

\* The text of a fetched bytecode. It is kept as the runs it is made of: a
\* prefix, a head, `count` times one filler byte and a tail
Text(runs) ==
    runs.prefix \o runs.head
        \o [i \in 1..(Len(runs.fill) * runs.count) |->
               runs.fill[((i - 1) % Len(runs.fill)) + 1]]
        \o runs.tail

\* What eth_getStorageAt gives for the EIP-1967 implementation slot
ImplementationLookups == {None, Some("0ximplementation")}

\* EvmAnalyzer::analyze_bytecode: the analysis of the fetched code, with the
\* implementation address of a proxy when the lookup has one
AnalyzeBytecode ==
    /\ pc = "fetched"
    /\ LET analysis == analyze(Text(input))
       IN  \E impl_addr \in ImplementationLookups :
              bytecode' = IF analysis.is_proxy /\ IsSome(impl_addr)
                          THEN [analysis EXCEPT !.implementation_address = impl_addr]
                          ELSE analysis
    /\ pc' = "analyzed"
    /\ UNCHANGED <<effects, input, locals, output, overflow_checks, token, capabilities, bridge_status,
                   holder_data, components, compatibility, risk_score>>

\* str::to_uppercase on ASCII text
to_uppercase(s) ==
    collect([i \in 1..Len(s) |->
                IF \E k \in 1..26 : LowerLetters[k] = s[i]
                THEN UpperLetters[CHOOSE k \in 1..26 : LowerLetters[k] = s[i]]
                ELSE s[i]])

\* Heads of ten bytes: the minimal-proxy template and a Solidity preamble
PlainHead ==
    <<"6", "0", "8", "0", "6", "0", "4", "0", "5", "2",
      "6", "0", "0", "4", "3", "6", "1", "0", "6", "1">>
CodeHeads == {MINIMAL_PROXY_PREFIX, PlainHead}

\* Tails of two bytes: with the byte f4, without it, with the characters
\* "f4" across two bytes, and with the byte ff
PlainTail == <<"5", "b", "f", "3">>
CodeTails == {<<"5", "a", "f", "4">>, PlainTail, <<"0", "f", "4", "0">>,
              <<"5", "b", "f", "f">>}

\* A code of n bytes (and a half): head, filler bytes 60 and tail
CodeRuns(p, h, t, n, upper, half) ==
    [prefix |-> p,
     head |-> IF upper THEN to_uppercase(h) ELSE h,
     fill |-> <<"6", "0">>,
     count |-> n - (Len(h) + Len(t)) \div 2,
     tail |-> (IF upper THEN to_uppercase(t) ELSE t) \o half]

\* A short size, the one of the minimal proxy of the tests, and the sizes
\* around the first threshold of detect_proxy
ProxySizes == {12, 45, SmallProxySize - 1, SmallProxySize, SmallProxySize + 1}

\* The sizes at the second threshold of detect_proxy
UpgradeableSizes == {UpgradeableProxySize - 1, UpgradeableProxySize}

\* The sizes at the thresholds of calculate_complexity
ComplexitySizes == {5 * KB - 1, 5 * KB, 15 * KB - 1, 15 * KB, 15 * KB + 1}

\* eth_getCode results: no code; the small codes in lower and upper case,
\* with and without 0x, with and without a trailing half byte; the larger
\* ones in fewer shapes
CodeInputs ==
    {[prefix |-> p, head |-> <<>>, fill |-> <<"6", "0">>, count |-> 0, tail |-> t] :
        p \in Prefixes, t \in {<<>>, <<"f">>}}
    \cup {CodeRuns(p, h, t, n, upper, half) :
             p \in Prefixes, h \in CodeHeads, t \in CodeTails, n \in ProxySizes,
             upper \in BOOLEAN, half \in {<<>>, <<"0">>}}
    \cup {CodeRuns(<<>>, h, t, n, FALSE, <<>>) :
             h \in CodeHeads, t \in CodeTails, n \in UpgradeableSizes}
    \cup {CodeRuns(<<"0", "x">>, PlainHead, PlainTail, n, FALSE, <<>>) : n \in ComplexitySizes}

InitAnalyze ==
    /\ pc = "fetched"
    /\ input \in CodeInputs
    /\ output = None
    /\ effects = <<>>
    /\ locals = NoLocals
    /\ overflow_checks = FALSE
    /\ token = Token(18)
    /\ capabilities = DefaultCapabilities
    /\ bytecode = DefaultBytecodeAnalysis
    /\ bridge_status = DefaultBridgeStatus
    /\ holder_data = None
    /\ components = DefaultRiskComponents
    /\ compatibility = None
    /\ risk_score = None

SpecAnalyze == InitAnalyze /\ [][AnalyzeBytecode]_vars

\* ---------------------------------------------------------------------
\* Properties of the bytecode analyzer
\* ---------------------------------------------------------------------

Analyzed == pc = "analyzed"

\* The analyzed code: the text behind the prefix, in lower case
Code == to_lowercase(AfterPrefix(Text(input)))

C20_ComplexityClasses ==
    Analyzed =>
        LET n == Len(Code) \div 2
        IN  /\ bytecode.complexity = (IF n < 5 * 1024 THEN "Simple"
                                      ELSE IF n <= 15 * 1024 THEN "Moderate"
                                      ELSE "Complex")
            /\ n = 0 => bytecode = DefaultBytecodeAnalysis

\* Some byte of the code, a pair of hex digits at an even offset, is `byte`
HasByte(code, byte) ==
    \E k \in 0..((Len(code) \div 2) - 1) :
        <<code[2 * k + 1], code[2 * k + 2]>> = HexOfByte(byte)

\* C21: has_selfdestruct is true exactly when some byte of the code equals
\* 0xff and has_delegatecall exactly when some byte equals 0xf4: a code none
\* of whose bytes is the opcode never sets the flag, one holding the byte
\* always sets it.
C21_OpcodeScanByBytes ==
    Analyzed =>
        /\ bytecode.has_selfdestruct <=> HasByte(Code, 255)
        /\ bytecode.has_delegatecall <=> HasByte(Code, 244)

\* ---------------------------------------------------------------------
\* BytecodeAnalyzer::detect_capabilities
\* ---------------------------------------------------------------------

\* capability_selectors
MINT == <<"4", "0", "c", "1", "0", "f", "1", "9">>
BURN == <<"4", "2", "9", "6", "6", "c", "6", "8">>
BURN_FROM == <<"7", "9", "c", "c", "6", "7", "9", "0">>
PAUSE == <<"8", "4", "5", "6", "c", "b", "5", "9">>
UNPAUSE == <<"3", "f", "4", "b", "a", "8", "3", "a">>
BLACKLIST == <<"f", "9", "f", "9", "2", "b", "e", "4">>
ADD_BLACKLIST == <<"4", "4", "3", "3", "7", "e", "a", "1">>
PERMIT == <<"d", "5", "0", "5", "a", "c", "c", "f">>

\* detect_capabilities searching the text as given, without to_lowercase
detect_capabilities_case_sensitive(code_arg) ==
    LET code == trim_start_matches(code_arg, <<"0", "x">>)
    IN  [has_mint |-> contains(code, MINT),
         has_burn |-> contains(code, BURN) \/ contains(code, BURN_FROM),
         has_pause |-> contains(code, PAUSE) \/ contains(code, UNPAUSE),
         has_blacklist |-> contains(code, BLACKLIST) \/ contains(code, ADD_BLACKLIST),
         has_permit |-> contains(code, PERMIT),
         is_upgradeable |-> detect_proxy(code)[1],
         is_rebasing |-> FALSE]

\* BytecodeAnalyzer::detect_capabilities; it sets the six flags it detects
\* and no rebasing flag
detect_capabilities(code_arg) ==
    LET code == to_lowercase(trim_start_matches(code_arg, <<"0", "x">>))
    IN  [has_mint |-> contains(code, MINT),
         has_burn |-> contains(code, BURN) \/ contains(code, BURN_FROM),
         has_pause |-> contains(code, PAUSE) \/ contains(code, UNPAUSE),
         has_blacklist |-> contains(code, BLACKLIST) \/ contains(code, ADD_BLACKLIST),
         has_permit |-> contains(code, PERMIT),
         is_upgradeable |-> detect_proxy(code)[1],
         is_rebasing |-> FALSE]

\* EvmAnalyzer::get_capabilities on the fetched code
GetCapabilities ==
    /\ pc = "analyzed"
    /\ capabilities' = detect_capabilities(Text(input))
    /\ pc' = "detected"
    /\ UNCHANGED <<effects, input, locals, output, overflow_checks, token, bytecode, bridge_status,
                   holder_data, components, compatibility, risk_score>>

\* The selectors each flag is detected by: mint, burn, pause, blacklist,
\* permit, fee pattern
FlagSelectors ==
    <<<<MINT>>, <<BURN, BURN_FROM>>, <<PAUSE, UNPAUSE>>, <<BLACKLIST, ADD_BLACKLIST>>,
      <<PERMIT>>, fee_selectors>>

\* The selectors of the flags in `flags`, the variant-th of each (modulo
\* their number), one after the other and a byte 00 after each
RECURSIVE SelectorText(_, _, _)
SelectorText(flags, variant, k) ==
    IF k > Len(FlagSelectors) THEN <<>>
    ELSE (IF k \in flags
          THEN FlagSelectors[k][((variant - 1) % Len(FlagSelectors[k])) + 1] \o <<"0", "0">>
          ELSE <<>>)
         \o SelectorText(flags, variant, k + 1)

\* Codes with any subset of the six flags' selectors behind a plain head, in
\* both letter cases, with and without 0x
SelectorInputs ==
    {[prefix |-> p,
      head |-> IF upper THEN to_uppercase(PlainHead) ELSE PlainHead,
      fill |-> <<"6", "0">>,
      count |-> 0,
      tail |-> IF upper THEN to_uppercase(SelectorText(flags, variant, 1))
               ELSE SelectorText(flags, variant, 1)] :
        p \in Prefixes, upper \in BOOLEAN, flags \in SUBSET (1..Len(FlagSelectors)),
        variant \in 1..Len(fee_selectors)}

InitCapabilities ==
    /\ pc = "fetched"
    /\ input \in CodeInputs \cup SelectorInputs
    /\ output = None
    /\ effects = <<>>
    /\ locals = NoLocals
    /\ overflow_checks = FALSE
    /\ token = Token(18)
    /\ capabilities = DefaultCapabilities
    /\ bytecode = DefaultBytecodeAnalysis
    /\ bridge_status = DefaultBridgeStatus
    /\ holder_data = None
    /\ components = DefaultRiskComponents
    /\ compatibility = None
    /\ risk_score = None

SpecCapabilities == InitCapabilities /\ [][AnalyzeBytecode \/ GetCapabilities]_vars

\* ---------------------------------------------------------------------
\* Properties of selector detection
\* ---------------------------------------------------------------------

Detected == pc = "detected"

Occurs(selector) == contains(Code, selector)

\* The same code with its hex digits in the other letter case
OtherCase ==
    [input EXCEPT !.head = IF to_lowercase(@) = @ THEN to_uppercase(@) ELSE to_lowercase(@),
                  !.tail = IF to_lowercase(@) = @ THEN to_uppercase(@) ELSE to_lowercase(@)]

\* C22: for every code the detection ends with a value; mint is set iff
\* 40c10f19 occurs, burn iff 42966c68 or 79cc6790, pause iff 8456cb59 or
\* 3f4ba83a, blacklist iff f9f92be4 or 44337ea1, permit iff d505accf and the
\* fee pattern iff one of 69fe0e2d, c0b0fda2, e01af92c, f41e60c5 occurs, each
\* flag on its own and whatever the letter case of the hex digits.
C22_SelectorFlags ==
    Detected =>
        /\ capabilities \in TokenCapabilities
        /\ capabilities.has_mint <=> Occurs(MINT)
        /\ capabilities.has_burn <=> (Occurs(BURN) \/ Occurs(BURN_FROM))
        /\ capabilities.has_pause <=> (Occurs(PAUSE) \/ Occurs(UNPAUSE))
        /\ capabilities.has_blacklist <=> (Occurs(BLACKLIST) \/ Occurs(ADD_BLACKLIST))
        /\ capabilities.has_permit <=> Occurs(PERMIT)
        /\ bytecode.has_fee_pattern <=>
               \E k \in 1..Len(fee_selectors) : Occurs(fee_selectors[k])
        /\ input \in SelectorInputs =>
               /\ OtherCase \in SelectorInputs
               /\ detect_capabilities(Text(OtherCase)) = capabilities
               /\ analyze(Text(OtherCase)).has_fee_pattern = bytecode.has_fee_pattern

\* An upper-case code with the selectors of burnFrom, permit and setTaxFee
\* only: exactly these three flags are set
C22_Witness ==
    /\ Detected
    /\ input.tail = to_uppercase(BURN_FROM \o <<"0", "0">> \o PERMIT \o <<"0", "0">>
                                   \o fee_selectors[2] \o <<"0", "0">>)
    /\ capabilities = [DefaultCapabilities EXCEPT !.has_burn = TRUE, !.has_permit = TRUE]
    /\ bytecode.has_fee_pattern

\* C30: the two outputs agree on the proxy status: is_upgradeable of
\* detect_capabilities equals is_proxy of analyze on the same code, and a
\* proxy of a kind other than MinimalProxy has has_delegatecall set.
C30_ProxyAgreement ==
    Detected =>
        /\ capabilities.is_upgradeable = bytecode.is_proxy
        /\ (bytecode.is_proxy /\ bytecode.proxy_type # Some("MinimalProxy"))
               => bytecode.has_delegatecall

\* An upper-case code of 999 bytes with 0x and the byte F4: both call it a proxy
C30_Witness ==
    /\ Detected
    /\ input.prefix = <<"0", "x">>
    /\ input.tail = <<"5", "A", "F", "4">>
    /\ bytecode.size_bytes = SmallProxySize - 1
    /\ bytecode.proxy_type = Some("Eip1967")
    /\ capabilities.is_upgradeable

\* ---------------------------------------------------------------------
\* TokenAnalyzer (analyzers/evm/token.rs)
\* ---------------------------------------------------------------------

\* selectors::NAME, SYMBOL, DECIMALS, TOTAL_SUPPLY
NAME == "0x06fdde03"
SYMBOL == "0x95d89b41"
DECIMALS == "0x313ce567"
TOTAL_SUPPLY == "0x18160ddd"

WhiteSpace == {" ", "\t", "\n"}

\* str::trim on text: the white space at both ends is removed
trim_str(s) ==
    LET inner == {i \in 1..Len(s) : s[i] \notin WhiteSpace}
    IN  IF inner = {} THEN <<>>
        ELSE SubSeq(s, CHOOSE i \in inner : \A j \in inner : i <= j,
                       CHOOSE i \in inner : \A j \in inner : i >= j)

AddressLength == 42

\* normalize_address returning the text in upper case
normalize_address_uppercase(address_arg) ==
    LET address == trim_str(address_arg)
    IN  IF ~starts_with(address, <<"0", "x">>) /\ ~starts_with(address, <<"0", "X">>)
        THEN Err("Address must start with 0x")
        ELSE IF Len(address) # AddressLength
        THEN Err("Address must be 42 characters (including 0x prefix)")
        ELSE IF \E i \in 3..Len(address) : ~IsSome(to_digit(address[i]))
        THEN Err("Address contains invalid characters")
        ELSE Ok(to_uppercase(address))

\* TokenAnalyzer::normalize_address; char::is_ascii_hexdigit holds of the
\* characters to_digit(16) reads
normalize_address(address_arg) ==
    LET address == trim_str(address_arg)
    IN  IF ~starts_with(address, <<"0", "x">>) /\ ~starts_with(address, <<"0", "X">>)
        THEN Err("Address must start with 0x")
        ELSE IF Len(address) # AddressLength
        THEN Err("Address must be 42 characters (including 0x prefix)")
        ELSE IF \E i \in 3..Len(address) : ~IsSome(to_digit(address[i]))
        THEN Err("Address contains invalid characters")
        ELSE Ok(to_lowercase(address))

\* EvmRpcClient::eth_call as seen from outside
EthCall(to, data) == [method |-> "eth_call", to |-> to, data |-> data]

\* What stops get_token_info once the address is valid: a call that fails
\* or a result that does not decode
MetadataFailures ==
    {"Failed to fetch token name", "Failed to decode token name",
     "Failed to fetch token symbol", "Failed to decode token symbol",
     "Failed to fetch token decimals", "Failed to decode token decimals",
     "Failed to fetch total supply", "Failed to decode total supply"}

\* Precisions the decimals() call answers with
ResolvedDecimals == {0, 8, 18}

\* TokenAnalyzer::get_token_info: the address is validated first; the four
\* reads are then made with the normalized address, and the first failure
\* among them is the result
GetTokenInfo ==
    /\ pc = "address"
    /\ LET address == normalize_address(input)
       IN  IF ~address.ok
           THEN /\ output' = Some(address)
                /\ pc' = "rejected"
                /\ UNCHANGED <<effects, token>>
           ELSE /\ effects' = effects \o <<EthCall(address.value, NAME),
                                            EthCall(address.value, SYMBOL),
                                            EthCall(address.value, DECIMALS),
                                            EthCall(address.value, TOTAL_SUPPLY)>>
                /\ \/ \E decimals \in ResolvedDecimals :
                          /\ token' = Token(decimals)
                          /\ output' = Some(Ok(address.value))
                          /\ pc' = "resolved"
                   \/ \E context \in MetadataFailures :
                          /\ output' = Some(Err(context))
                          /\ pc' = "failed"
                          /\ UNCHANGED token
    /\ UNCHANGED <<input, locals, overflow_checks, capabilities, bytecode, bridge_status,
                   holder_data, components, compatibility, risk_score>>

\* Addresses given on the command line: blanks or none around, a prefix or
\* none, and digits: a first one, a run of one filler and a last one
AddressPads == {<<>>, <<" ">>, <<"\t", "\n">>}
AddressPrefixes == {<<>>, <<"0", "x">>, <<"0", "X">>}
AddressDigitCounts == {0, 38, 39, 40, 41, 42}
AddressChars == {"0", "9", "a", "F", "g"}
AddressInputs ==
    {left \o p \o (IF n = 0 THEN <<>> ELSE Body(n, first, fill, last)) \o right :
        left \in AddressPads, right \in {<<>>, <<" ">>}, p \in AddressPrefixes,
        n \in AddressDigitCounts, first \in AddressChars, fill \in {"0", "a"},
        last \in {"9", "F", "g"}}

InitAddress ==
    /\ pc = "address"
    /\ input \in AddressInputs
    /\ output = None
    /\ effects = <<>>
    /\ locals = NoLocals
    /\ overflow_checks = FALSE
    /\ token = Token(18)
    /\ capabilities = DefaultCapabilities
    /\ bytecode = DefaultBytecodeAnalysis
    /\ bridge_status = DefaultBridgeStatus
    /\ holder_data = None
    /\ components = DefaultRiskComponents
    /\ compatibility = None
    /\ risk_score = None

SpecAddress == InitAddress /\ [][GetTokenInfo]_vars

\* ---------------------------------------------------------------------
\* Properties of the address validation
\* ---------------------------------------------------------------------

HexDigitChars ==
    {"0", "1", "2", "3", "4", "5", "6", "7", "8", "9",
     "a", "b", "c", "d", "e", "f", "A", "B", "C", "D", "E", "F"}

FortyHexDigits(text) == Len(text) = 40 /\ \A i \in 1..40 : text[i] \in HexDigitChars

AddressErrors ==
    {Err("Address must start with 0x"),
     Err("Address must be 42 characters (including 0x prefix)"),
     Err("Address contains invalid characters")}

Validated == pc \in {"rejected", "resolved", "failed"}
AddressAccepted == pc \in {"resolved", "failed"}
AddressRejected == pc = "rejected" /\ Unwrap(output) \in AddressErrors

\* The address all the calls made were sent to
CalledAddress == effects[1].to

Trimmed ==
    LET inner == {i \in 1..Len(input) : input[i] \notin WhiteSpace}
    IN  [i \in 1..Cardinality(inner) |->
            input[(CHOOSE k \in inner : \A j \in inner : k <= j) + i - 1]]

Effect(kind, args, reply) == [kind |-> kind, args |-> args, reply |-> reply]

\* The command returns: its result, and nothing more is done
Finish(result) ==
    /\ pc' = "done"
    /\ output' = Some(result)

\* Lines a user types at a [y/N] prompt
AnswerLines ==
    {<<"y", "\n">>, <<"Y", "\n">>, <<" ", "y", " ", "\n">>, <<"n", "\n">>, <<"\n">>,
     <<"y", "e", "s", "\n">>}

\* input.trim().eq_ignore_ascii_case("y")
Confirms(line) == to_lowercase(trim_str(line)) = <<"y">>

\* What the analysis of the token finds
AnalysisTokens == {Token(d) : d \in {6, 8, 9, 18}}
AnalysisCapabilities ==
    {DefaultCapabilities, [DefaultCapabilities EXCEPT !.has_burn = TRUE],
     [DefaultCapabilities EXCEPT !.is_rebasing = TRUE]}
AnalysisBytecodes ==
    {[DefaultBytecodeAnalysis EXCEPT !.size_bytes = 2000],
     [DefaultBytecodeAnalysis EXCEPT !.size_bytes = 2000, !.has_fee_pattern = TRUE]}
AnalysisBridges ==
    {DefaultBridgeStatus,
     [DefaultBridgeStatus EXCEPT !.already_on_solana = TRUE,
                                 !.bridge_provider = Some("Wormhole")]}

\* u8::min
min(a, b) == IF a <= b THEN a ELSE b

SplMaxDecimals == 9

\* let spl_decimals = analysis.token.decimals.min(9);
spl_decimals(decimals) == min(decimals, SplMaxDecimals)

\* NttMode's Display, then to_lowercase
LowerMode(mode) == IF mode = "Burning" THEN "burning" ELSE "locking"

\* Step 1: check_prerequisites unless --skip-ntt: `ntt --version`, then
\* `solana --version`
MigratePrerequisites ==
    /\ pc = "migrate"
    /\ IF input.skip_ntt
       THEN /\ pc' = "analyze"
            /\ UNCHANGED <<effects, output>>
       ELSE \/ /\ effects' = effects \o <<Effect("run", <<"ntt", "--version">>, FALSE)>>
               /\ Finish(Err("NTT CLI not found"))
            \/ /\ effects' = effects \o <<Effect("run", <<"ntt", "--version">>, TRUE),
                                           Effect("run", <<"solana", "--version">>, FALSE)>>
               /\ Finish(Err("Solana CLI not found"))
            \/ /\ effects' = effects \o <<Effect("run", <<"ntt", "--version">>, TRUE),
                                           Effect("run", <<"solana", "--version">>, TRUE)>>
               /\ pc' = "analyze"
               /\ UNCHANGED output
    /\ UNCHANGED <<input, locals, overflow_checks, token, capabilities, bytecode, bridge_status,
                   holder_data, components, compatibility, risk_score>>

\* Step 2: the token is analyzed; a token that is not compatible ends the
\* run, and so does any answer but y when it is on Solana already
MigrateAnalyze ==
    /\ pc = "analyze"
    /\ \/ /\ effects' = effects \o <<Effect("analyze", <<input.address>>, FALSE)>>
          /\ Finish(Err("analysis failed"))
          /\ UNCHANGED <<token, capabilities, bytecode, bridge_status, components,
                         compatibility, risk_score>>
       \/ /\ token' \in AnalysisTokens
          /\ capabilities' \in AnalysisCapabilities
          /\ bytecode' \in AnalysisBytecodes
          /\ bridge_status' \in AnalysisBridges
          /\ compatibility' = Some(check(token', capabilities', bytecode'))
          /\ components' = calculate_components(token', capabilities', bytecode',
                                                bridge_status', None)
          /\ risk_score' = Some(from_components(components'))
          /\ LET analyzed == Effect("analyze", <<input.address>>, TRUE)
             IN  IF ~Unwrap(compatibility').is_compatible
                 THEN /\ effects' = effects \o <<analyzed>>
                      /\ Finish(Err("Token not compatible with NTT"))
                 ELSE IF bridge_status'.already_on_solana
                 THEN \E line \in AnswerLines :
                        /\ effects' = effects \o
                               <<analyzed, Effect("prompt", <<"Continue anyway?">>, line)>>
                        /\ IF Confirms(line)
                           THEN pc' = "keypair" /\ UNCHANGED output
                           ELSE Finish(Ok("Aborted."))
                 ELSE /\ effects' = effects \o <<analyzed>>
                      /\ pc' = "keypair"
                      /\ UNCHANGED output
    /\ UNCHANGED <<input, locals, overflow_checks, holder_data>>

\* Step 3, first part: the keypair is loaded, and a deployment to mainnet
\* is confirmed
MigrateKeypair ==
    /\ pc = "keypair"
    /\ \/ /\ effects' = effects \o <<Effect("read_keypair_file", <<input.keypair>>, FALSE)>>
          /\ Finish(Err("Failed to load keypair"))
       \/ LET loaded == Effect("read_keypair_file", <<input.keypair>>, TRUE)
          IN  IF input.network = "mainnet"
              THEN \E line \in AnswerLines :
                     /\ effects' = effects \o <<loaded, Effect("prompt", <<"Proceed?">>, line)>>
                     /\ IF Confirms(line)
                        THEN pc' = "balance" /\ UNCHANGED output
                        ELSE Finish(Ok("Aborted."))
              ELSE /\ effects' = effects \o <<loaded>>
                   /\ pc' = "balance"
                   /\ UNCHANGED output
    /\ UNCHANGED <<input, locals, overflow_checks, token, capabilities, bytecode, bridge_status,
                   holder_data, components, compatibility, risk_score>>

LamportsPerSol == 1000000000
PerSolNeeded == 100

\* The balance test with a threshold of 0.001 SOL
Insufficient_below_milli(lamports) == lamports < LamportsPerSol \div (10 * PerSolNeeded)

\* balance < 0.01 with balance = lamports as f64 / 1_000_000_000.0
Insufficient(lamports) == lamports < LamportsPerSol \div PerSolNeeded

\* Balances of the wallet: none, just below and at 0.01 SOL, one SOL
BalanceInputs ==
    {0, (LamportsPerSol \div PerSolNeeded) - 1, LamportsPerSol \div PerSolNeeded,
     LamportsPerSol}

\* Step 3, second part: the balance is read and must be 0.01 SOL at least
MigrateBalance ==
    /\ pc = "balance"
    /\ \/ /\ effects' = effects \o <<Effect("get_balance", <<>>, None)>>
          /\ Finish(Err("get_balance failed"))
       \/ \E lamports \in BalanceInputs :
             /\ effects' = effects \o <<Effect("get_balance", <<>>, Some(lamports))>>
             /\ IF Insufficient(lamports)
                THEN Finish(Err("Insufficient balance"))
                ELSE pc' = "mint" /\ UNCHANGED output
    /\ UNCHANGED <<input, locals, overflow_checks, token, capabilities, bytecode, bridge_status,
                   holder_data, components, compatibility, risk_score>>

\* SolanaDeployer::create_spl_token: the precision given to initialize_mint2
mint_decimals(decimals) == min(decimals, SplMaxDecimals)

\* Step 3, third part: the SPL mint is created with spl_decimals
MigrateMint ==
    /\ pc = "mint"
    /\ LET decimals == mint_decimals(spl_decimals(token.decimals))
       IN  \/ /\ effects' = effects \o
                      <<Effect("create_spl_token", <<ToString(decimals)>>, FALSE)>>
              /\ Finish(Err("Transaction failed"))
           \/ /\ effects' = effects \o
                      <<Effect("create_spl_token", <<ToString(decimals)>>, TRUE)>>
              /\ pc' = "metadata"
              /\ UNCHANGED output
    /\ UNCHANGED <<input, locals, overflow_checks, token, capabilities, bytecode, bridge_status,
                   holder_data, components, compatibility, risk_score>>

\* Step 3, last part: the metadata is created; a failure is reported only
MigrateMetadata ==
    /\ pc = "metadata"
    /\ \E created \in BOOLEAN :
          effects' = effects \o <<Effect("create_metadata", <<"mint">>, created)>>
    /\ pc' = "write"
    /\ UNCHANGED <<input, locals, output, overflow_checks, token, capabilities, bytecode,
                   bridge_status, holder_data, components, compatibility, risk_score>>

\* NttConfigGenerator::generate_deployment_json: the fields a run decides
generate_deployment_json(tok, config) ==
    [source |-> [chain |-> "ethereum", decimals |-> tok.decimals,
                 mode |-> LowerMode(config.recommended_mode)],
     destination |-> [chain |-> "solana", decimals |-> config.solana_decimals,
                      mode |-> "burning"]]

\* Step 4: deployment.json is written; step 5 follows unless --skip-ntt
MigrateWrite ==
    /\ pc = "write"
    /\ LET deployment_json == generate_deployment_json(token, Unwrap(compatibility))
       IN  \/ /\ effects' = effects \o
                      <<Effect("write", <<"deployment.json", deployment_json>>, FALSE)>>
              /\ Finish(Err("write failed"))
           \/ /\ effects' = effects \o
                      <<Effect("write", <<"deployment.json", deployment_json>>, TRUE)>>
              /\ IF input.skip_ntt
                 THEN Finish(Ok("Migration Complete!"))
                 ELSE pc' = "ntt_init" /\ UNCHANGED output
    /\ UNCHANGED <<input, locals, overflow_checks, token, capabilities, bytecode, bridge_status,
                   holder_data, components, compatibility, risk_score>>

\* The ntt commands of step 5, in the order of the code
NttSteps == <<"ntt_init", "ntt_add_source", "ntt_add_solana", "ntt_push">>

\* The arguments of the k-th ntt command
NttArgs(k) ==
    IF k = 1 THEN <<"init">>
    ELSE IF k = 2
    THEN <<"add-chain", "ethereum", "--mode",
           LowerMode(Unwrap(compatibility).recommended_mode), "--token", input.address>>
    ELSE IF k = 3
    THEN <<"add-chain", "solana", "--mode", "burning", "--token", "mint",
           "--decimals", ToString(spl_decimals(token.decimals))>>
    ELSE <<"push">>

\* Step 5: run_ntt_command, one command after the other; the first that
\* fails ends the run
MigrateNtt ==
    /\ \E k \in 1..Len(NttSteps) :
          /\ pc = NttSteps[k]
          /\ \/ /\ effects' = effects \o <<Effect("ntt", NttArgs(k), FALSE)>>
                /\ Finish(Err("ntt failed"))
             \/ /\ effects' = effects \o <<Effect("ntt", NttArgs(k), TRUE)>>
                /\ IF k < Len(NttSteps)
                   THEN pc' = NttSteps[k + 1] /\ UNCHANGED output
                   ELSE Finish(Ok("Migration Complete!"))
    /\ UNCHANGED <<input, locals, overflow_checks, token, capabilities, bytecode, bridge_status,
                   holder_data, components, compatibility, risk_score>>

\* run_deploy: the token is analyzed; a token that is not compatible ends
\* the run
DeployAnalyze ==
    /\ pc = "deploy"
    /\ \/ /\ effects' = effects \o <<Effect("analyze", <<input.address>>, FALSE)>>
          /\ Finish(Err("analysis failed"))
          /\ UNCHANGED <<token, capabilities, bytecode, compatibility>>
       \/ /\ token' \in AnalysisTokens
          /\ capabilities' \in AnalysisCapabilities
          /\ bytecode' \in AnalysisBytecodes
          /\ compatibility' = Some(check(token', capabilities', bytecode'))
          /\ effects' = effects \o <<Effect("analyze", <<input.address>>, TRUE)>>
          /\ IF ~Unwrap(compatibility').is_compatible
             THEN Finish(Err("Token is not compatible with NTT migration"))
             ELSE pc' = "deploy_keypair" /\ UNCHANGED output
    /\ UNCHANGED <<input, locals, overflow_checks, bridge_status, holder_data, components, risk_score>>

\* run_deploy: a deployment to mainnet is confirmed, then the keypair is loaded
DeployKeypair ==
    /\ pc = "deploy_keypair"
    /\ \E line \in AnswerLines, loaded \in BOOLEAN :
          LET prompt == IF input.network = "mainnet"
                        THEN <<Effect("prompt", <<"Proceed?">>, line)>> ELSE <<>>
          IN  IF input.network = "mainnet" /\ ~Confirms(line)
              THEN /\ effects' = effects \o prompt
                   /\ Finish(Ok("Aborted."))
              ELSE /\ effects' = effects \o prompt \o
                          <<Effect("read_keypair_file", <<input.keypair>>, loaded)>>
                   /\ IF loaded
                      THEN pc' = "deploy_balance" /\ UNCHANGED output
                      ELSE Finish(Err("Failed to load keypair"))
    /\ UNCHANGED <<input, locals, overflow_checks, token, capabilities, bytecode, bridge_status,
                   holder_data, components, compatibility, risk_score>>

\* run_deploy: the balance is read and must be 0.01 SOL at least
DeployBalance ==
    /\ pc = "deploy_balance"
    /\ \/ /\ effects' = effects \o <<Effect("get_balance", <<>>, None)>>
          /\ Finish(Err("get_balance failed"))
       \/ \E lamports \in BalanceInputs :
             /\ effects' = effects \o <<Effect("get_balance", <<>>, Some(lamports))>>
             /\ IF Insufficient(lamports)
                THEN Finish(Err("Insufficient balance"))
                ELSE pc' = "deploy_mint" /\ UNCHANGED output
    /\ UNCHANGED <<input, locals, overflow_checks, token, capabilities, bytecode, bridge_status,
                   holder_data, components, compatibility, risk_score>>

\* run_deploy: the SPL mint is created with spl_decimals, then its
\* metadata (a failure is reported only), then the mint authority is
\* transferred when asked for
DeployMint ==
    /\ pc = "deploy_mint"
    /\ LET decimals == mint_decimals(spl_decimals(token.decimals))
       IN  \/ /\ effects' = effects \o
                      <<Effect("create_spl_token", <<ToString(decimals)>>, FALSE)>>
              /\ Finish(Err("Transaction failed"))
           \/ \E created \in BOOLEAN, transferred \in BOOLEAN :
                 /\ effects' = effects \o
                        <<Effect("create_spl_token", <<ToString(decimals)>>, TRUE),
                          Effect("create_metadata", <<"mint">>, created)>> \o
                        (IF IsSome(input.transfer_authority)
                         THEN <<Effect("transfer_mint_authority",
                                       <<"mint", Unwrap(input.transfer_authority)>>,
                                       transferred)>>
                         ELSE <<>>)
                 /\ IF IsSome(input.transfer_authority) /\ ~transferred
                    THEN Finish(Err("transfer failed"))
                    ELSE Finish(Ok("SPL Token Created"))
    /\ UNCHANGED <<input, locals, overflow_checks, token, capabilities, bytecode, bridge_status,
                   holder_data, components, compatibility, risk_score>>

\* The command lines: migrate with or without --skip-ntt, deploy with or
\* without --transfer-authority, on devnet or mainnet
CommandInputs ==
    {[command |-> "migrate", address |-> "0xtoken", network |-> n, keypair |-> "id.json",
      skip_ntt |-> skip, transfer_authority |-> None] :
        n \in {"devnet", "mainnet"}, skip \in BOOLEAN}
    \cup {[command |-> "deploy", address |-> "0xtoken", network |-> n, keypair |-> "id.json",
           skip_ntt |-> FALSE, transfer_authority |-> a] :
             n \in {"devnet", "mainnet"}, a \in {None, Some("authority")}}

InitMigrate ==
    /\ input \in CommandInputs
    /\ pc = input.command
    /\ output = None
    /\ effects = <<>>
    /\ locals = NoLocals
    /\ overflow_checks = FALSE
    /\ token = Token(18)
    /\ capabilities = DefaultCapabilities
    /\ bytecode = DefaultBytecodeAnalysis
    /\ bridge_status = DefaultBridgeStatus
    /\ holder_data = None
    /\ components = DefaultRiskComponents
    /\ compatibility = None
    /\ risk_score = None

NextMigrate ==
    \/ MigratePrerequisites
    \/ MigrateAnalyze
    \/ MigrateKeypair
    \/ MigrateBalance
    \/ MigrateMint
    \/ MigrateMetadata
    \/ MigrateWrite
    \/ MigrateNtt
    \/ DeployAnalyze
    \/ DeployKeypair
    \/ DeployBalance
    \/ DeployMint

SpecMigrate == InitMigrate /\ [][NextMigrate]_vars

\* ---------------------------------------------------------------------
\* Properties of run_migrate and run_deploy
\* ---------------------------------------------------------------------

\* C24: the destination precision is one value that never exceeds 8: the
\* decimals of the SPL mint, the --decimals argument of `ntt add-chain
\* solana` and the destination decimals of deployment.json all equal the
\* verdict's precision, min(source decimals, 8).
C24_OneDestinationPrecision ==
    \A i \in 1..Len(effects) :
        LET e == effects[i]
            verdict == Unwrap(compatibility).solana_decimals
        IN  /\ e.kind \in {"create_spl_token", "write", "ntt"} =>
                   verdict = (IF token.decimals < 8 THEN token.decimals ELSE 8)
            /\ e.kind = "create_spl_token" => e.args = <<ToString(verdict)>>
            /\ e.kind = "write" => e.args[2].destination.decimals = verdict
            /\ (e.kind = "ntt" /\ Len(e.args) = 8) =>
                   e.args[7] = "--decimals" /\ e.args[8] = ToString(verdict)

Kinds(kind) == {i \in 1..Len(effects) : effects[i].kind = kind}

\* The effects whose reply says whether they succeeded
Fallible ==
    {"run", "analyze", "read_keypair_file", "create_spl_token", "create_metadata",
     "write", "ntt", "transfer_mint_authority"}

\* The line is a y or a Y with nothing but white space around it
AnsweredYes(line) ==
    \E i \in 1..Len(line) :
        /\ line[i] \in {"y", "Y"}
        /\ \A j \in (1..Len(line)) \ {i} : line[j] \in WhiteSpace

\* The ntt commands run so far, by their first two arguments
NttRun == [k \in 1..Cardinality(Kinds("ntt")) |->
              LET i == CHOOSE i \in Kinds("ntt") :
                          Cardinality({j \in Kinds("ntt") : j <= i}) = k
              IN  SubSeq(effects[i].args, 1, IF Len(effects[i].args) > 1 THEN 2 ELSE 1)]

\* C25: run_migrate acts in one fixed order and stops at the first failed
\* gate. The SPL mint comes only after the prerequisite check passed
\* (unless skip_ntt), the verdict was compatible, the user answered y when
\* the token is on Solana already and when the network is mainnet, and the
\* balance was 0.01 SOL at least; a token that is not compatible leads to no
\* mint, no deployment.json and no ntt command. After the mint a metadata
\* failure does not stop the run, deployment.json is written, and the ntt
\* commands run in the order init, add-chain <source>, add-chain solana,
\* push, each only if the one before succeeded, none with skip_ntt.
C25_MigrateOrder ==
    /\ \A i \in 1..Len(effects) :
           (effects[i].kind \in Fallible \ {"create_metadata"} /\ ~effects[i].reply)
               => i = Len(effects) /\ pc = "done"
    /\ (IsSome(compatibility) /\ ~Unwrap(compatibility).is_compatible) =>
           Kinds("create_spl_token") \cup Kinds("write") \cup Kinds("ntt") = {}
    /\ input.command = "migrate" =>
           /\ \A m \in Kinds("create_spl_token") :
                  /\ ~input.skip_ntt =>
                         \E j \in 1..m, k \in 1..m :
                             /\ j < k
                             /\ effects[j].kind = "run" /\ effects[j].args[1] = "ntt"
                             /\ effects[j].reply
                             /\ effects[k].kind = "run" /\ effects[k].args[1] = "solana"
                             /\ effects[k].reply
                  /\ \E j \in Kinds("analyze") :
                         j < m /\ effects[j].reply /\ Unwrap(compatibility).is_compatible
                  /\ bridge_status.already_on_solana =>
                         \E j \in Kinds("prompt") :
                             /\ j < m
                             /\ effects[j].args = <<"Continue anyway?">>
                             /\ AnsweredYes(effects[j].reply)
                  /\ input.network = "mainnet" =>
                         \E j \in Kinds("prompt") :
                             /\ j < m
                             /\ effects[j].args = <<"Proceed?">>
                             /\ AnsweredYes(effects[j].reply)
                  /\ \E j \in Kinds("get_balance") :
                         /\ j < m
                         /\ IsSome(effects[j].reply)
                         /\ Unwrap(effects[j].reply) >= 10000000
           /\ \A m \in Kinds("create_spl_token") :
                  (effects[m].reply /\ pc = "done") =>
                      /\ Len(effects) >= m + 2
                      /\ effects[m + 1].kind = "create_metadata"
                      /\ effects[m + 2].kind = "write"
           /\ \A w \in Kinds("write"), n \in Kinds("ntt") : w < n /\ effects[w].reply
           /\ \A n \in Kinds("ntt") : \A j \in Kinds("ntt") : j < n => effects[j].reply
           /\ Kinds("ntt") # {} => ~input.skip_ntt /\ Kinds("write") # {}
           /\ NttRun = SubSeq(<<<<"init">>, <<"add-chain", "ethereum">>,
                                 <<"add-chain", "solana">>, <<"push">>>>,
                               1, Cardinality(Kinds("ntt")))

\* A migration to mainnet of a token on Solana already, confirmed twice,
\* whose metadata failed: all four ntt commands ran and the run succeeded
C25_Witness ==
    /\ pc = "done"
    /\ input.command = "migrate" /\ input.network = "mainnet" /\ ~input.skip_ntt
    /\ bridge_status.already_on_solana
    /\ \E i \in Kinds("create_metadata") : ~effects[i].reply
    /\ Cardinality(Kinds("ntt")) = 4
    /\ effects[Len(effects)] = Effect("ntt", <<"push">>, TRUE)
    /\ output = Some(Ok("Migration Complete!"))

\* ---------------------------------------------------------------------
\* EvmRpcClient::call (analyzers/evm/rpc.rs)
\* ---------------------------------------------------------------------

\* for attempt in 0..3
MaxAttempts == 3

\* Exponential backoff: from_millis(500 * (1 << attempt))
BackoffMillis == 500
Backoff(attempt) == BackoffMillis * (2 ^ attempt)

\* What an attempt meets: the request is not sent, the response does not
\* parse, it carries an error, it carries a result, or neither
AttemptOutcomes == {"send_failed", "parse_failed", "rpc_error", "result", "no_result"}

\* The error an attempt leaves in last_err
AttemptError(outcome) ==
    IF outcome = "send_failed" THEN "Failed to send RPC request"
    ELSE IF outcome = "parse_failed" THEN "Failed to parse RPC response"
    ELSE "RPC error"

\* An attempt that goes on to the next one also when the response has no result
Continues_without_result(outcome) ==
    outcome \in {"send_failed", "parse_failed", "rpc_error", "no_result"}

\* The attempts that end in `continue`
Continues(outcome) == outcome \in {"send_failed", "parse_failed", "rpc_error"}

\* One turn of the loop: the backoff from the second attempt on, the
\* request, and either `continue` with last_err set or the return of
\* rpc_response.result.context("No result in RPC response")
RpcAttempt ==
    /\ pc = "call"
    /\ locals.attempt < MaxAttempts
    /\ \E outcome \in AttemptOutcomes :
          /\ effects' = effects \o
                 (IF locals.attempt > 0
                  THEN <<Effect("sleep", <<ToString(Backoff(locals.attempt))>>, TRUE)>>
                  ELSE <<>>)
                 \o <<Effect("post", <<input.method>>, outcome)>>
          /\ IF Continues(outcome)
             THEN /\ locals' = [attempt |-> locals.attempt + 1,
                                last_err |-> Some(AttemptError(outcome))]
                  /\ UNCHANGED <<pc, output>>
             ELSE /\ Finish(IF outcome = "result" THEN Ok("result")
                            ELSE Err("No result in RPC response"))
                  /\ UNCHANGED locals
    /\ UNCHANGED <<input, overflow_checks, token, capabilities, bytecode, bridge_status,
                   holder_data, components, compatibility, risk_score>>

\* The loop is over: Err(last_err.unwrap_or_else(..))
RpcExhausted ==
    /\ pc = "call"
    /\ locals.attempt >= MaxAttempts
    /\ Finish(Err(IF IsSome(locals.last_err) THEN Unwrap(locals.last_err)
                  ELSE "RPC call failed after retries"))
    /\ UNCHANGED <<effects, input, locals, overflow_checks, token, capabilities, bytecode,
                   bridge_status, holder_data, components, compatibility, risk_score>>

\* The calls of the client: eth_call, get_code, get_storage_at
RpcMethods == {"eth_call", "eth_getCode", "eth_getStorageAt"}

InitRpc ==
    /\ pc = "call"
    /\ input \in {[method |-> m] : m \in RpcMethods}
    /\ locals = [attempt |-> 0, last_err |-> None]
    /\ output = None
    /\ effects = <<>>
    /\ overflow_checks = FALSE
    /\ token = Token(18)
    /\ capabilities = DefaultCapabilities
    /\ bytecode = DefaultBytecodeAnalysis
    /\ bridge_status = DefaultBridgeStatus
    /\ holder_data = None
    /\ components = DefaultRiskComponents
    /\ compatibility = None
    /\ risk_score = None

NextRpc == RpcAttempt \/ RpcExhausted

\* The runtime drives the future of `call` to its end
SpecRpc == InitRpc /\ [][NextRpc]_vars /\ WF_vars(NextRpc)

\* ---------------------------------------------------------------------
\* Properties of the RPC client
\* ---------------------------------------------------------------------

Posts == Kinds("post")

\* The error of an attempt that failed
FailureOf(outcome) ==
    CASE outcome = "send_failed" -> "Failed to send RPC request"
      [] outcome = "parse_failed" -> "Failed to parse RPC response"
      [] outcome = "rpc_error" -> "RPC error"

Failed(i) == effects[i].reply \in {"send_failed", "parse_failed", "rpc_error"}

\* What holds of the attempts in every state
CallAttempts ==
    /\ Cardinality(Posts) <= 3
    /\ \A i \in Posts :
           /\ ~Failed(i) => i = Len(effects) /\ pc = "done"
           /\ (\E j \in Posts : j < i) =>
                  /\ effects[i - 1].kind = "sleep"
                  /\ \A j \in Posts : j < i => Failed(j)
    /\ pc = "done" =>
           LET last == effects[Len(effects)]
           IN  /\ last.kind = "post"
               /\ output = Some(IF last.reply = "result" THEN Ok("result")
                                ELSE IF last.reply = "no_result"
                                THEN Err("No result in RPC response")
                                ELSE Err(FailureOf(last.reply)))
               /\ Failed(Len(effects)) => Cardinality(Posts) = 3
    /\ (pc # "done" /\ Cardinality(Posts) < 3) => ENABLED RpcAttempt

\* C26: call ends after 3 request attempts at most. It returns the outcome
\* of the first attempt whose response is received, parses and carries no
\* RPC error, and makes no attempt after it; an attempt that fails to send
\* or to parse or carries an RPC error is followed by another one, after a
\* backoff delay, only while fewer than 3 were made; after 3 failed
\* attempts the error of the last one is returned.
C26_CallTerminates == []CallAttempts /\ <>(pc = "done")

\* Two failed attempts, then a response with a result: three requests, two
\* delays, and the result is returned
C26_Witness ==
    /\ pc = "done"
    /\ Cardinality(Posts) = 3
    /\ Cardinality(Kinds("sleep")) = 2
    /\ effects[1].reply = "rpc_error"
    /\ output = Some(Ok("result"))

\* ---------------------------------------------------------------------
\* MigrationPlanGenerator (report/migration_plan.rs) and PathComparator
\* (report/comparison.rs)
\* ---------------------------------------------------------------------

MigrationMethod == {"NttSunrise", "NeonEvm", "NativeRewrite"}
Feasibility == {"Recommended", "Viable", "NotRecommended"}

\* FullAnalysis: the fields the plan reads
FullAnalysis(tok, caps, bc, compat, bs) ==
    [token |-> tok, capabilities |-> caps, bytecode |-> bc, compatibility |-> compat,
     bridge_status |-> bs]

\* MigrationPlanGenerator::determine_recommended_path
determine_recommended_path(analysis) ==
    IF ~analysis.compatibility.is_compatible /\ analysis.bytecode.has_fee_pattern
    THEN "NeonEvm"
    ELSE IF analysis.bridge_status.already_on_solana THEN "NttSunrise"
    ELSE "NttSunrise"

MigrationPath(method, feasibility, cons) ==
    [method |-> method, feasibility |-> feasibility, cons |-> cons]

\* PathComparator::evaluate_ntt
evaluate_ntt(analysis) ==
    LET f1 == IF ~analysis.compatibility.is_compatible THEN "NotRecommended"
              ELSE "Recommended"
        c1 == PushIf(~analysis.compatibility.is_compatible, <<>>,
                     "Compatibility issues detected")
        f2 == IF analysis.bytecode.has_fee_pattern THEN "NotRecommended" ELSE f1
        c2 == PushIf(analysis.bytecode.has_fee_pattern, c1, "Fee-on-transfer not supported")
        c3 == PushIf(analysis.compatibility.decimal_trimming_required, c2,
                     "Decimal trimming: " \o ToString(analysis.token.decimals) \o " -> "
                     \o ToString(analysis.compatibility.solana_decimals))
        f4 == IF analysis.bridge_status.already_on_solana /\ f2 = "Recommended"
              THEN "Viable" ELSE f2
        c4 == PushIf(analysis.bridge_status.already_on_solana, c3,
                     "Token already exists on Solana, coordination needed")
    IN  MigrationPath("NttSunrise", f4, c4)

LargeContractSize == 15000

\* PathComparator::evaluate_neon
evaluate_neon(analysis) ==
    MigrationPath("NeonEvm",
                  IF analysis.bytecode.has_fee_pattern THEN "Recommended" ELSE "Viable",
                  PushIf(analysis.bytecode.size_bytes > LargeContractSize,
                         <<"Not a native SPL token", "Limited DeFi integrations",
                           "Higher per-transaction costs">>,
                         "Large contract may have high deployment cost"))

\* PathComparator::evaluate_native
evaluate_native(analysis) ==
    MigrationPath("NativeRewrite", "Viable",
                  <<"Significant development effort", "Requires Solana expertise",
                    "Security audit recommended",
                    "Migration complexity for existing holders">>)

\* PathComparator::compare
compare(analysis) ==
    <<evaluate_ntt(analysis), evaluate_neon(analysis), evaluate_native(analysis)>>

\* MigrationPlanGenerator::generate: the recommended path and the paths
\* (the steps and the NTT configuration are texts made from the same analysis)
generate(analysis) ==
    [recommended_path |-> determine_recommended_path(analysis),
     paths |-> compare(analysis)]

\* let plan = MigrationPlanGenerator::generate(&analysis);
GeneratePlan ==
    /\ pc = "scored"
    /\ output' = Some(generate(FullAnalysis(token, capabilities, bytecode,
                                            Unwrap(compatibility), bridge_status)))
    /\ pc' = "planned"
    /\ UNCHANGED <<effects, input, locals, overflow_checks, token, capabilities, bytecode,
                   bridge_status, holder_data, components, compatibility, risk_score>>

\* Bytecode profiles over the fields the plan reads
PlanBytecodeInputs ==
    {[DefaultBytecodeAnalysis EXCEPT !.size_bytes = n, !.has_fee_pattern = f] :
        n \in {2000, LargeContractSize, LargeContractSize + 1}, f \in BOOLEAN}

\* Every combination of capability flags, fee pattern and bridge presence
InitPlan ==
    /\ InitPipeline
    /\ token \in {Token(6), Token(18)}
    /\ capabilities \in TokenCapabilities
    /\ bytecode \in PlanBytecodeInputs
    /\ bridge_status \in BridgeInputs
    /\ holder_data = None

NextPlan == CheckCompatibility \/ CalculateRisk \/ GeneratePlan

SpecPlan == InitPlan /\ [][NextPlan]_vars

\* ---------------------------------------------------------------------
\* Properties of the migration plan
\* ---------------------------------------------------------------------

Plan == Unwrap(output)

\* C27: in every plan the recommended path is one of the three listed
\* paths, and the listed path of that method is never NotRecommended.
C27_RecommendedIsFeasible ==
    pc = "planned" =>
        /\ Len(Plan.paths) = 3
        /\ \E i \in 1..Len(Plan.paths) : Plan.paths[i].method = Plan.recommended_path
        /\ \A i \in 1..Len(Plan.paths) :
               Plan.paths[i].method = Plan.recommended_path
                   => Plan.paths[i].feasibility # "NotRecommended"

\* ---------------------------------------------------------------------
\* HolderAnalyzer (analyzers/holders.rs)
\* ---------------------------------------------------------------------

\* str::parse::<f64> on the quantities of a holder list: a run of decimal
\* digits is its value, a text that is no number is an error
RECURSIVE DecimalValue(_)
DecimalValue(text) ==
    IF text = <<>> THEN 0
    ELSE 10 * DecimalValue(SubSeq(text, 1, Len(text) - 1))
         + Unwrap(to_digit(text[Len(text)]))

parse_f64(text) ==
    IF text # <<>> /\ \A i \in 1..Len(text) :
                         IsSome(to_digit(text[i])) /\ Unwrap(to_digit(text[i])) <= 9
    THEN Some(DecimalValue(text))
    ELSE None

\* Option::unwrap_or / Result::unwrap_or
unwrap_or(o, default) == IF IsSome(o) THEN Unwrap(o) ELSE default

\* x / y as a percentage, to the nearest step of the fixed-point scale
Percentage(x, y) == (2 * x * Pct(100) + y) \div (2 * y)

\* calculate_concentration leaving out the factor 100.0
calculate_concentration_as_fraction(holders) ==
    LET balance(i) == unwrap_or(parse_f64(holders[i].balance), 0)
        RECURSIVE total(_)
        total(i) == IF i = 0 THEN 0 ELSE total(i - 1) + balance(i)
        total_balance == total(Len(holders))
        top_holders == [i \in 1..Len(holders) |->
                           HolderInfo(IF total_balance > 0
                                      THEN Percentage(balance(i), total_balance) \div 100
                                      ELSE 0)]
    IN  HolderData(top_holders, SumPercentages(top_holders))

\* HolderAnalyzer::calculate_concentration
calculate_concentration(holders) ==
    LET balance(i) == unwrap_or(parse_f64(holders[i].balance), 0)
        RECURSIVE total(_)
        total(i) == IF i = 0 THEN 0 ELSE total(i - 1) + balance(i)
        total_balance == total(Len(holders))
        top_holders == [i \in 1..Len(holders) |->
                           HolderInfo(IF total_balance > 0
                                      THEN Percentage(balance(i), total_balance)
                                      ELSE 0)]
    IN  HolderData(top_holders, SumPercentages(top_holders))

\* HolderAnalyzer::get_holders
get_holders(api_key, response) ==
    IF ~IsSome(api_key) THEN Err("Etherscan API key required for holder data")
    ELSE IF ~response.received THEN Err("Failed to fetch holder data")
    ELSE IF response.status # "1" THEN Err("Etherscan API error")
    ELSE Ok(calculate_concentration(response.result))

\* Result::ok
ok(result) == IF result.ok THEN Some(result.value) ELSE None

\* let holder_data = if !skip_holders { get_holders(..).await.ok() } else { None };
GetHolders ==
    /\ pc = "holders"
    /\ holder_data' = IF ~input.skip_holders
                      THEN ok(get_holders(input.api_key, input.response))
                      ELSE None
    /\ pc' = "start"
    /\ UNCHANGED <<effects, input, locals, output, overflow_checks, token, capabilities,
                   bytecode, bridge_status, components, compatibility, risk_score>>

\* Longest holder list of a response
MaxListed == 3

\* TokenHolderQuantity texts: none, small ones, one of two digits, no number
QuantityTexts == {<<"0">>, <<"1">>, <<"2">>, <<"1", "0">>, <<"n", "/", "a">>}

EtherscanHolders ==
    UNION {[1..n -> {[address |-> "0xholder", balance |-> q] : q \in QuantityTexts}] :
              n \in 0..MaxListed}

\* Responses of the block explorer: none, an error status, a holder list
EtherscanResponses ==
    {[received |-> FALSE, status |-> "0", result |-> <<>>],
     [received |-> TRUE, status |-> "0", result |-> <<>>]}
    \cup {[received |-> TRUE, status |-> "1", result |-> h] : h \in EtherscanHolders}

InitConcentration ==
    /\ output = None
    /\ effects = <<>>
    /\ locals = NoLocals
    /\ overflow_checks \in BOOLEAN
    /\ components = DefaultRiskComponents
    /\ compatibility = None
    /\ risk_score = None
    /\ pc = "holders"
    /\ input \in [skip_holders : BOOLEAN, api_key : {None, Some("key")},
                   response : EtherscanResponses]
    /\ token = Token(18)
    /\ capabilities = DefaultCapabilities
    /\ bytecode = DefaultBytecodeAnalysis
    /\ bridge_status = DefaultBridgeStatus
    /\ holder_data = None

NextConcentration == GetHolders \/ CheckCompatibility \/ CalculateRisk

SpecConcentration == InitConcentration /\ [][NextConcentration]_vars

\* The holder list of a response that get_holders turned into holder data
Listed == input.response.result
Produced == ~input.skip_holders /\ IsSome(input.api_key)
            /\ input.response.received /\ input.response.status = "1"
Quantity(i) == unwrap_or(parse_f64(Listed[i].balance), 0)
SomePositive == \E i \in 1..Len(Listed) : Quantity(i) > 0

\* The sum of the listed quantities
RECURSIVE SumQuantities(_)
SumQuantities(n) == IF n = 0 THEN 0 ELSE SumQuantities(n - 1) + Quantity(n)

\* Half a step of the fixed-point scale, the error of one rounded percentage
WithinHalfStep(p, x, y) == 2 * y * p - y <= 2 * x * Pct(100) /\ 2 * x * Pct(100) <= 2 * y * p + y

\* C28: for holder data produced by calculate_concentration each
\* percentage is the holder's share of the sum of the listed balances
\* (0 when that sum is 0) and top_10_concentration is the sum of the
\* percentages; the holder component of the risk score for such data is
\* 15 when some listed balance is positive and 0 when the list is empty
\* or every balance is zero, never 5 or 10.
C28_ProducedConcentration ==
    (Produced /\ pc # "holders") =>
        /\ IsSome(holder_data)
        /\ LET data == Unwrap(holder_data)
               total == SumQuantities(Len(Listed))
           IN  /\ Len(data.top_holders) = Len(Listed)
               /\ \A i \in 1..Len(Listed) :
                      IF total > 0
                      THEN WithinHalfStep(data.top_holders[i].percentage, Quantity(i), total)
                      ELSE data.top_holders[i].percentage = 0
               /\ data.top_10_concentration = SumPercentages(data.top_holders)
        /\ Scored =>
               /\ Score.components.holder_concentration \in {0, 15}
               /\ Score.components.holder_concentration = 15 <=> SomePositive

\* A scored list whose first holder has less than half and whose
\* percentages are rounded
C28_Witness ==
    /\ Produced /\ Scored
    /\ Len(Listed) = 3
    /\ \A i \in 1..3 : Quantity(i) = 1
    /\ Score.components.holder_concentration = 15

\* ---------------------------------------------------------------------
\* The dispatch of decode_uint256 (analyzers/evm/decoder.rs)
\* ---------------------------------------------------------------------

\* A call of the private conversion on the digits decode_uint256 trimmed
HexToDecimal ==
    /\ pc = "hex_to_decimal"
    /\ output' = Some(hex_to_decimal(input))
    /\ pc' = "converted"
    /\ UNCHANGED <<effects, input, locals, overflow_checks, token, capabilities, bytecode,
                   bridge_status, holder_data, components, compatibility, risk_score>>

\* Every number of digits up to one past the u128 branch, and two longer
DispatchLengths == (1..33) \cup {41, WordLength}

\* Digit strings without a leading zero, in lower and upper case
TrimmedInputs ==
    {Body(n, first, fill, last) :
        n \in DispatchLengths,
        first \in {"1", "8", "f"}, fill \in {"0", "9", "f"}, last \in {"0", "7", "f", "C"}}

InitDispatch ==
    /\ InitDecoder
    /\ pc \in {"decode_uint256", "hex_to_decimal"}
    /\ overflow_checks = FALSE
    /\ input \in TrimmedInputs

NextDispatch == DecodeUint256 \/ HexToDecimal

SpecDispatch == InitDispatch /\ [][NextDispatch]_vars

\* The decimal string of the machine-word parse of the given width
WordParse(bits) == to_string(from_str_radix(input, bits).value)

\* C29: on 1 to 32 hexadecimal digits without a leading zero
\* hex_to_decimal returns the decimal string of the u64 / u128 parse, its
\* output never has a leading zero, and decode_uint256 returns what
\* hex_to_decimal returns on every number of digits, the 16/17 and 32/33
\* boundaries included.
C29_DispatchUnobservable ==
    /\ pc = "converted" =>
           /\ IsDecimal(Unwrap(output))
           /\ Len(input) <= 16 =>
                  from_str_radix(input, 64).ok /\ Unwrap(output) = WordParse(64)
           /\ Len(input) <= 32 =>
                  from_str_radix(input, 128).ok /\ Unwrap(output) = WordParse(128)
    /\ pc = "decoded" => Unwrap(output) = Ok(hex_to_decimal(input))

\* The manual conversion applied to 32 digits, a value of several decimal
\* digits that only the u128 branch of decode_uint256 handles
C29_Witness ==
    /\ pc = "converted"
    /\ Len(input) = 32
    /\ Unwrap(output) = WordParse(128)
    /\ Len(Unwrap(output)) > 20

====
